---------------------------- MODULE Spec2Model ----------------------------
(***************************************************************************)
(* Model of the "Other Us" FastAPI backend (src/backend/main.py): the      *)
(* Redis-backed credential store, the JWT token service, the OAuth state   *)
(* nonces, the Google and GitHub callbacks and the Session Guard.          *)
(*                                                                         *)
(* Every Redis command a handler issues is one atomic step of the model,   *)
(* so that requests served by different workers interleave between store   *)
(* commands.  Spec allows any interleaving of the request slots, SpecRace  *)
(* any interleaving of the requests that create or merge accounts, and     *)
(* SpecOverlap a profile update during a deletion.  SpecSeq serves the     *)
(* sign-in routes and SpecProfile every route one request at a time.       *)
(* SpecToken and SpecEmail exercise the token service and GitHub's e-mail   *)
(* resolution alone.                                                       *)
(***************************************************************************)
EXTENDS Integers, Sequences, FiniteSets, TLC

(***************************************************************************)
(* Bounds of the model.                                                    *)
(***************************************************************************)
NReq == 2          \* request slots (requests in flight at once)
MaxUsers == 2      \* uuid4 values drawn for user ids in one run
MaxNonces == 2     \* token_urlsafe values drawn for state nonces
MaxTicks == 1      \* clock advances in one run
TickSeconds == 600 \* seconds the clock advances at a time
MaxTokenTicks == 4 \* clock advances while a token is being verified
TokenTickSeconds == 300
MaxAppTicks == 2   \* clock advances while the desktop client runs
MaxEmails == 2     \* entries in an answer of GET /user/emails
MaxSessions == 3   \* sessions of the desktop app in one run

(***************************************************************************)
(* Program constants.                                                      *)
(***************************************************************************)
StateTTL == 600                  \* r.setex(..., 600, provider)
ACCESS_TOKEN_EXPIRE_MINUTES == 5  \* the deployment's setting

Reqs == 1..NReq
UserIds == 1..MaxUsers
Nonces == 1..MaxNonces
SECRET_KEY == "changeme"
OtherKey == "attacker"

(***************************************************************************)
(* Inputs.                                                                 *)
(***************************************************************************)
EmailInputs == {"a@x.com", "A@x.com", "b@x.com"}
Passwords == {"pw1", "pw2"}
\* what a login form may carry as its password
LoginPasswords == Passwords \cup {""}

\* str.lower() on the e-mail inputs
Lower(e) == IF e = "A@x.com" THEN "a@x.com"
            ELSE IF e = "B@x.com" THEN "b@x.com" ELSE e

\* Optional values: <<>> is None, <<v>> is v
None == <<>>
Some(v) == <<v>>
IsNone(o) == o = <<>>

\* Redis string keys: a partial function from key to value
Put(f, k, v) == (k :> v) @@ f
Del(f, k) == [x \in (DOMAIN f) \ {k} |-> f[x]]
Get(f, k) == IF k \in DOMAIN f THEN Some(f[k]) ELSE None

(***************************************************************************)
(* Password hashing.  A bcrypt hash is modelled by what checkpw reads from *)
(* it: the password it was made from (the salt it embeds is left out).     *)
(* The empty string stored for OAuth accounts is EmptyHash.                *)
(***************************************************************************)
EmptyHash == [alg |-> "none", pw |-> ""]

hash_password(plain) == [alg |-> "bcrypt", pw |-> plain]

\* a mutant: accepts every password for any bcrypt hash
verify_password_any(plain, hashed) == hashed.alg = "bcrypt"

\* a mutant: compares the plaintext with whatever is stored
verify_password_compare(plain, hashed) == hashed.pw = plain

\* checkpw raises on a hash that is no bcrypt hash; the handler returns False
verify_password(plain, hashed) ==
    IF hashed.alg # "bcrypt" THEN FALSE ELSE hashed.pw = plain

(***************************************************************************)
(* JWT helpers.  A token is its payload and the key that signed it; exp is *)
(* in whole seconds.                                                       *)
(***************************************************************************)
\* `expires_delta or timedelta(minutes=...)`: None and timedelta(0) are falsy
create_access_token(sub, expires_delta, t) ==
    [form |-> "jwt", sub |-> sub, key |-> SECRET_KEY,
     exp |-> t + (IF IsNone(expires_delta) \/ expires_delta[1] = 0
                  THEN ACCESS_TOKEN_EXPIRE_MINUTES * 60
                  ELSE expires_delta[1])]

\* jose: a bad structure or signature, or exp < now, raises JWTError -> None;
\* otherwise payload.get("sub")
verify_token(token, t) ==
    IF token.form # "jwt" THEN None
    ELSE IF token.key # SECRET_KEY THEN None
    ELSE IF token.exp < t THEN None
    ELSE Some(token.sub)

(***************************************************************************)
(* State.                                                                  *)
(***************************************************************************)
VARIABLES
    users,        \* user:<id>          -> record
    email_to_id,  \* email_to_id:<mail> -> id
    users_all,    \* users:all, the directory set
    oauth_state,  \* oauth_state:<nonce> -> [provider, expires]
    now,          \* the clock, in seconds
    nextId,       \* the next uuid4 user id
    nextNonce,    \* the next token_urlsafe nonce
    pc,           \* where each request slot's handler stands
    req,          \* each slot's request and the handler's locals
    resp,         \* each slot's response, once the handler has returned
    registered,   \* history: the accounts POST /auth/register has answered 200 for
    issued_at,    \* history: when each state nonce was issued
    passed,       \* history: how many callbacks passed the state check, per nonce
    freed,        \* history: the e-mails of the accounts DELETE /users/me removed
    deleted,      \* history: the ids of the accounts DELETE /users/me removed
    tk,           \* the token service on its own: a token and its verification
    em,           \* e-mail resolution on its own: GitHub's answers and the e-mail
    app,          \* the desktop client: its API client, view stack and threads
    oauth_callbacks \* the app's callback server: the registry and its request

store == <<users, email_to_id, users_all, oauth_state>>
history == <<registered, issued_at, passed, freed, deleted>>
vars == <<users, email_to_id, users_all, oauth_state, now, nextId, nextNonce,
          pc, req, resp, registered, issued_at, passed, freed, deleted, tk, em,
          app, oauth_callbacks>>
harness == <<tk, em, app, oauth_callbacks>>

NoReq == [op |-> "none", email |-> "", password |-> "", token |-> None,
          state |-> 0, stored |-> None, uid |-> None, user |-> None,
          newid |-> 0, ident |-> None, at |-> 0, net |-> 0, sub |-> 0,
          consulted |-> FALSE, non200 |-> FALSE, payload |-> None,
          target |-> 0, q |-> "", ids |-> {}, results |-> {}]
NoResp == [status |-> 0, token |-> None, user_id |-> 0, headers |-> {},
           body |-> None]

HttpError(code) == [NoResp EXCEPT !.status = code]
Unauthorized == [NoResp EXCEPT !.status = 401,
                               !.headers = {"WWW-Authenticate"}]

\* LoginScreen._set_loading: the progress ring and the three buttons
set_loading(state) ==
    [visible |-> state, submit_btn |-> state, google_btn |-> state,
     github_btn |-> state]

\* OtherUsAPI.__init__ and the initial route: no token, no user, the login
\* screen on the view stack, no handler and no background thread running;
\* `left` is history: the token the client held when it last logged out;
\* `err` is the exception the last call raised, as the screen reports it;
\* `loading` is the loading state of the login screen a call was started from
NoApp == [token |-> None, current_user |-> None, views |-> <<"login">>,
          ui |-> "idle", bg |-> "none", call |-> "", left |-> None,
          err |-> None, loading |-> set_loading(FALSE)]

\* _oauth_callbacks = {} and no request: `registry` holds the session ids in
\* the order they were registered, `closed` the sessions whose on_disconnect
\* has run; of the request being served, `snapshot` is the list the loop
\* runs over, `i` the next position in it, `called` how often each handler was
\* invoked, `raised` the handlers that raised and `late` those invoked after
\* their session's on_disconnect
Sessions == 1..MaxSessions
NoCallbacks == [registry |-> <<>>, closed |-> {}, phase |-> "idle",
                token |-> "", snapshot |-> <<>>, i |-> 0,
                called |-> [s \in Sessions |-> 0], raised |-> {}, late |-> {}]

NoToken == [phase |-> "none", sub |-> 0, ttl |-> None, t0 |-> 0,
            token |-> None, t |-> 0, result |-> None]
NoEmail == [phase |-> "none", gh_user |-> None, email_resp |-> None, n |-> 0,
            email |-> ""]

Init ==
    /\ users = <<>>
    /\ email_to_id = <<>>
    /\ users_all = {}
    /\ oauth_state = <<>>
    /\ now = 0
    /\ nextId = 1
    /\ nextNonce = 1
    /\ pc = [r \in Reqs |-> "idle"]
    /\ req = [r \in Reqs |-> NoReq]
    /\ resp = [r \in Reqs |-> NoResp]
    /\ registered = {}
    /\ issued_at = <<>>
    /\ passed = [n \in Nonces |-> 0]
    /\ freed = {}
    /\ deleted = {}
    /\ tk = NoToken
    /\ em = NoEmail
    /\ app = NoApp
    /\ oauth_callbacks = NoCallbacks

\* the handler of slot r moves to `to` with its locals changed to `q`
Goto(r, to, q) ==
    /\ pc' = [pc EXCEPT ![r] = to]
    /\ req' = [req EXCEPT ![r] = q]
    /\ resp' = resp

\* the handler of slot r returns `out`
Reply(r, q, out) ==
    /\ pc' = [pc EXCEPT ![r] = "done"]
    /\ req' = [req EXCEPT ![r] = q]
    /\ resp' = [resp EXCEPT ![r] = out]

\* a request is served by the lowest free slot
Free(r) == pc[r] = "idle" /\ \A s \in Reqs : s < r => pc[s] # "idle"

\* slots that will still draw a user id
Allocating == {r \in Reqs :
                  \/ pc[r] \in {"reg_get_user", "reg_set_user", "cb_del_state",
                               "cb_exchange", "cb_userinfo", "cb_get_index",
                               "cb_get_user"}
                  \/ pc[r] = "cb_set_user" /\ IsNone(req[r].user)}
CanAllocate == (nextId - 1) + Cardinality(Allocating) < MaxUsers

\* a mutant: the token is made out to the oldest account
TokenEnvelope_first(user, t) ==
    [NoResp EXCEPT !.status = 200,
                   !.token = Some(create_access_token(1, None, t)),
                   !.user_id = user.user_id,
                   !.body = Some([user_id |-> user.user_id,
                                  display_name |-> user.display_name,
                                  email |-> user.email])]

TokenEnvelope(user, t) ==
    [NoResp EXCEPT !.status = 200,
                   !.token = Some(create_access_token(user.user_id, None, t)),
                   !.user_id = user.user_id,
                   !.body = Some([user_id |-> user.user_id,
                                  display_name |-> user.display_name,
                                  email |-> user.email])]

(***************************************************************************)
(* POST /auth/register                                                     *)
(***************************************************************************)
\* a mutant: the index is looked up under the e-mail as typed
register_get_index_exact(r) ==
    /\ Free(r)
    /\ CanAllocate
    /\ \E e \in EmailInputs, p \in Passwords :
         LET q == [NoReq EXCEPT !.op = "register", !.email = e, !.password = p,
                                !.at = now,
                                !.uid = Get(email_to_id, e)]
         IN Goto(r, IF IsNone(q.uid) THEN "reg_set_user" ELSE "reg_get_user", q)
    /\ UNCHANGED <<harness, store, now, nextId, nextNonce, history>>

\* redis_get_user_by_email: GET email_to_id:<email.lower()>
register_get_index(r) ==
    /\ Free(r)
    /\ CanAllocate
    /\ \E e \in EmailInputs, p \in Passwords :
         LET q == [NoReq EXCEPT !.op = "register", !.email = e, !.password = p,
                                !.at = now,
                                !.uid = Get(email_to_id, Lower(e))]
         IN Goto(r, IF IsNone(q.uid) THEN "reg_set_user" ELSE "reg_get_user", q)
    /\ UNCHANGED <<harness, store, now, nextId, nextNonce, history>>

\* a mutant: registers whether or not the e-mail is taken
register_get_user_nocheck(r) ==
    /\ pc[r] = "reg_get_user"
    /\ Goto(r, "reg_set_user", req[r])
    /\ UNCHANGED <<harness, store, now, nextId, nextNonce, history>>

\* a mutant: an index entry alone makes the e-mail count as registered
register_get_user_by_index(r) ==
    /\ pc[r] = "reg_get_user"
    /\ Reply(r, req[r], HttpError(400))
    /\ UNCHANGED <<harness, store, now, nextId, nextNonce, history>>

\* redis_get_user: GET user:<uid>; `if existing: raise 400`
register_get_user(r) ==
    /\ pc[r] = "reg_get_user"
    /\ LET existing == Get(users, req[r].uid[1])
       IN IF ~IsNone(existing)
          THEN Reply(r, [req[r] EXCEPT !.user = existing], HttpError(400))
          ELSE Goto(r, "reg_set_user", req[r])
    /\ UNCHANGED <<harness, store, now, nextId, nextNonce, history>>

NewUser(id, email, hash, ident, provider, t) ==
    [user_id |-> id, email |-> email, password_hash |-> hash,
     display_name |-> ident.display_name, bio |-> ident.bio, interests |-> "",
     avatar_url |-> ident.avatar_url, location |-> ident.location,
     website |-> ident.website, provider |-> provider,
     oauth_id |-> ident.oauth_id, created_at |-> t, updated_at |-> t]

\* what a provider's answers are normalised to (and the register payload)
Identity(email, oauth_id, avatar_url, bio, location, website) ==
    [email |-> email, oauth_id |-> oauth_id, display_name |-> "name",
     avatar_url |-> avatar_url, bio |-> bio, location |-> location,
     website |-> website]

\* a mutant: the new account takes the lowest id that has no record
register_set_user_reuse(r) ==
    /\ pc[r] = "reg_set_user"
    /\ LET id == CHOOSE i \in 1..nextId :
                    i \notin DOMAIN users /\ \A j \in 1..(i - 1) : j \in DOMAIN users
           user == NewUser(id, Lower(req[r].email),
                           hash_password(req[r].password),
                           Identity(Lower(req[r].email), "", "", "", "", ""),
                           "email", now)
       IN /\ users' = Put(users, id, user)
          /\ Goto(r, "reg_set_index",
                  [req[r] EXCEPT !.newid = id, !.user = Some(user)])
    /\ nextId' = nextId + 1
    /\ UNCHANGED <<harness, email_to_id, users_all, oauth_state, now, nextNonce, history>>

\* uuid4, hash_password, then redis_set_user: SET user:<id>
register_set_user(r) ==
    /\ pc[r] = "reg_set_user"
    /\ LET user == NewUser(nextId, Lower(req[r].email),
                           hash_password(req[r].password),
                           Identity(Lower(req[r].email), "", "", "", "", ""),
                           "email", now)
       IN /\ users' = Put(users, nextId, user)
          /\ Goto(r, "reg_set_index",
                  [req[r] EXCEPT !.newid = nextId, !.user = Some(user)])
    /\ nextId' = nextId + 1
    /\ UNCHANGED <<harness, email_to_id, users_all, oauth_state, now, nextNonce, history>>

\* redis_set_user: SET email_to_id:<email.lower()>
register_set_index(r) ==
    /\ pc[r] = "reg_set_index"
    /\ email_to_id' = Put(email_to_id, Lower(req[r].user[1].email), req[r].newid)
    /\ Goto(r, "reg_sadd", req[r])
    /\ UNCHANGED <<harness, users, users_all, oauth_state, now, nextId, nextNonce, history>>

\* redis_add_to_index: SADD users:all; then the token envelope
register_sadd(r) ==
    /\ pc[r] = "reg_sadd"
    /\ users_all' = users_all \cup {req[r].newid}
    /\ Reply(r, req[r], TokenEnvelope(req[r].user[1], now))
    /\ registered' = registered \cup
          {[uid |-> req[r].newid, email |-> Lower(req[r].email),
            password |-> req[r].password]}
    /\ UNCHANGED <<harness, users, email_to_id, oauth_state, now, nextId, nextNonce,
                   issued_at, passed, freed, deleted>>

(***************************************************************************)
(* POST /auth/token                                                        *)
(***************************************************************************)
\* redis_get_user_by_email: GET email_to_id:<username.lower()>
login_get_index(r) ==
    /\ Free(r)
    /\ \E e \in EmailInputs, p \in LoginPasswords :
         LET q == [NoReq EXCEPT !.op = "login", !.email = e, !.password = p,
                                !.at = now,
                                !.uid = Get(email_to_id, Lower(e))]
         IN IF IsNone(q.uid)
            THEN Reply(r, q, Unauthorized)
            ELSE Goto(r, "login_get_user", q)
    /\ UNCHANGED <<harness, store, now, nextId, nextNonce, history>>

\* redis_get_user: GET user:<uid>; verify_password; the token envelope
login_get_user(r) ==
    /\ pc[r] = "login_get_user"
    /\ LET user == Get(users, req[r].uid[1])
           q == [req[r] EXCEPT !.user = user]
       IN IF IsNone(user)
             \/ ~verify_password(req[r].password, user[1].password_hash)
          THEN Reply(r, q, Unauthorized)
          ELSE Reply(r, q, TokenEnvelope(user[1], now))
    /\ UNCHANGED <<harness, store, now, nextId, nextNonce, history>>

(***************************************************************************)
(* GET /auth/google/login and GET /auth/github/login                       *)
(***************************************************************************)
\* secrets.token_urlsafe(32); r.setex("oauth_state:<state>", 600, provider)
oauth_login(r, provider) ==
    /\ Free(r)
    /\ nextNonce <= MaxNonces
    /\ oauth_state' = Put(oauth_state, nextNonce,
                          [provider |-> provider, expires |-> now + StateTTL])
    /\ issued_at' = Put(issued_at, nextNonce, now)
    /\ nextNonce' = nextNonce + 1
    /\ Reply(r, [NoReq EXCEPT !.op = provider \o "_login", !.state = nextNonce,
                              !.at = now],
             [NoResp EXCEPT !.status = 200, !.body = Some(nextNonce)])
    /\ UNCHANGED <<harness, users, email_to_id, users_all, now, nextId, registered,
                   passed, freed, deleted>>

google_login(r) == oauth_login(r, "google")

github_login(r) == oauth_login(r, "github")

(***************************************************************************)
(* The state check of both callbacks                                       *)
(***************************************************************************)
\* a mutant: the handler goes on whether or not the nonce is stored
callback_get_state_nocheck(r, provider) ==
    /\ Free(r)
    /\ CanAllocate
    /\ \E n \in Nonces :
         /\ Goto(r, "cb_del_state",
                 [NoReq EXCEPT !.op = provider \o "_callback", !.state = n,
                               !.at = now, !.stored = Get(oauth_state, n)])
         /\ passed' = [passed EXCEPT ![n] = @ + 1]
    /\ UNCHANGED <<harness, store, now, nextId, nextNonce, registered, issued_at,
                   freed, deleted>>

\* stored = r.get("oauth_state:<state>"); `if not stored: raise 400`
callback_get_state(r, provider) ==
    /\ Free(r)
    /\ CanAllocate
    /\ \E n \in Nonces :
         LET q == [NoReq EXCEPT !.op = provider \o "_callback", !.state = n,
                                !.at = now, !.stored = Get(oauth_state, n)]
         IN IF IsNone(q.stored)
            THEN Reply(r, q, HttpError(400)) /\ passed' = passed
            ELSE /\ Goto(r, "cb_del_state", q)
                 /\ passed' = [passed EXCEPT ![n] = @ + 1]
    /\ UNCHANGED <<harness, store, now, nextId, nextNonce, registered, issued_at,
                   freed, deleted>>

\* a mutant: the nonce is left in the store
callback_del_state_keep(r, provider) ==
    /\ pc[r] = "cb_del_state"
    /\ req[r].op = provider \o "_callback"
    /\ Goto(r, "cb_exchange", req[r])
    /\ UNCHANGED <<harness, store, now, nextId, nextNonce, history>>

\* r.delete("oauth_state:<state>")
callback_del_state(r, provider) ==
    /\ pc[r] = "cb_del_state"
    /\ req[r].op = provider \o "_callback"
    /\ oauth_state' = Del(oauth_state, req[r].state)
    /\ Goto(r, "cb_exchange", req[r])
    /\ UNCHANGED <<harness, users, email_to_id, users_all, now, nextId, nextNonce, history>>

google_callback_get_state(r) == callback_get_state(r, "google")

google_callback_del_state(r) == callback_del_state(r, "google")

github_callback_get_state(r) == callback_get_state(r, "github")

github_callback_del_state(r) == callback_del_state(r, "github")

(***************************************************************************)
(* What the providers answer                                               *)
(***************************************************************************)
GoogleUserinfo == {[email |-> "A@x.com", sub |-> "g-a", picture |-> "pic"],
                   [email |-> "A@x.com", sub |-> "g-a", picture |-> ""]}

\* GET /user: a profile, or an error object with none of its fields
GithubError == [id |-> None, email |-> None, avatar_url |-> "", bio |-> "",
                location |-> "", blog |-> ""]
GithubUser == {[status |-> 200,
                json |-> [id |-> Some("7"), email |-> None, avatar_url |-> "ghpic",
                          bio |-> "ghbio", location |-> "ghloc", blog |-> "ghblog"]],
               [status |-> 401, json |-> GithubError]}

\* GET /user/emails
GithubEmails == {[status |-> 200,
                  json |-> <<[email |-> "A@x.com", primary |-> TRUE,
                              verified |-> TRUE]>>],
                 [status |-> 403, json |-> <<>>]}

\* f"gh_{id}@github.noemail", for a profile id and for uuid4().hex
Placeholder(id) == "gh_" \o id \o "@github.noemail"
UuidHex(n) == IF n = 1 THEN "uuid-1" ELSE IF n = 2 THEN "uuid-2"
              ELSE IF n = 3 THEN "uuid-3" ELSE "uuid-4"

\* a mutant: the profile's e-mail is taken before the e-mails list is looked at
github_email_profile_first(gh_user, email_resp, n) ==
    LET emails == IF email_resp.status = 200 THEN email_resp.json ELSE <<>>
        pv == {i \in 1..Len(emails) : emails[i].primary /\ emails[i].verified}
        first == CHOOSE i \in pv : \A j \in pv : i <= j
    IN IF ~IsNone(gh_user.email) /\ gh_user.email[1] # ""
       THEN Lower(gh_user.email[1])
       ELSE IF pv # {} THEN Lower(emails[first].email)
       ELSE IF ~IsNone(gh_user.id) THEN Placeholder(gh_user.id[1])
       ELSE Placeholder(UuidHex(n))

\* a mutant: the placeholder is made from a fresh uuid4 at every sign-in
github_email_random(gh_user, email_resp, n) ==
    LET emails == IF email_resp.status = 200 THEN email_resp.json ELSE <<>>
        pv == {i \in 1..Len(emails) : emails[i].primary /\ emails[i].verified}
        first == CHOOSE i \in pv : \A j \in pv : i <= j
        email == IF pv # {} THEN Lower(emails[first].email) ELSE ""
    IN IF email # "" THEN email
       ELSE IF ~IsNone(gh_user.email) /\ gh_user.email[1] # ""
       THEN Lower(gh_user.email[1])
       ELSE Placeholder(UuidHex(n))

\* the e-mail the GitHub callback settles on (lines 405-416)
github_email(gh_user, email_resp, n) ==
    LET emails == IF email_resp.status = 200 THEN email_resp.json ELSE <<>>
        pv == {i \in 1..Len(emails) : emails[i].primary /\ emails[i].verified}
        first == CHOOSE i \in pv : \A j \in pv : i <= j
        email == IF pv # {} THEN Lower(emails[first].email) ELSE ""
    IN IF email # "" THEN email
       ELSE IF ~IsNone(gh_user.email) /\ gh_user.email[1] # ""
       THEN Lower(gh_user.email[1])
       ELSE IF ~IsNone(gh_user.id) THEN Placeholder(gh_user.id[1])
       ELSE Placeholder(UuidHex(n))

Redirect(user, provider, t) ==
    [NoResp EXCEPT !.status = 302,
                   !.token = Some(create_access_token(user.user_id, None, t)),
                   !.user_id = user.user_id,
                   !.body = Some(provider)]

(***************************************************************************)
(* GET /auth/google/callback, after the state check                        *)
(***************************************************************************)
\* POST oauth2.googleapis.com/token; non-200 -> 400
google_callback_exchange(r) ==
    /\ pc[r] = "cb_exchange"
    /\ req[r].op = "google_callback"
    /\ \E status \in {200, 400} :
         LET q == [req[r] EXCEPT !.net = @ + 1, !.non200 = (status # 200)]
         IN IF status # 200 THEN Reply(r, q, HttpError(400))
            ELSE Goto(r, "cb_userinfo", q)
    /\ UNCHANGED <<harness, store, now, nextId, nextNonce, history>>

\* GET googleapis.com/oauth2/v3/userinfo; non-200 -> 400; lines 301-304
google_callback_userinfo(r) ==
    /\ pc[r] = "cb_userinfo"
    /\ req[r].op = "google_callback"
    /\ \/ Reply(r, [req[r] EXCEPT !.net = @ + 1, !.non200 = TRUE],
                HttpError(400))
       \/ \E guser \in GoogleUserinfo :
            Goto(r, "cb_get_index",
                 [req[r] EXCEPT !.net = @ + 1,
                                !.ident = Some(Identity(Lower(guser.email),
                                     guser.sub, guser.picture, "", "", ""))])
    /\ UNCHANGED <<harness, store, now, nextId, nextNonce, history>>

\* redis_get_user: GET user:<uid>; the avatar refresh of the else branch
google_callback_get_user(r) ==
    /\ pc[r] = "cb_get_user"
    /\ req[r].op = "google_callback"
    /\ LET user == Get(users, req[r].uid[1])
           avatar_url == req[r].ident[1].avatar_url
       IN IF IsNone(user) THEN Goto(r, "cb_set_user", req[r])
          ELSE IF avatar_url # "" /\ user[1].avatar_url # avatar_url
          THEN Goto(r, "cb_set_user",
                    [req[r] EXCEPT !.user = Some([user[1] EXCEPT
                                       !.avatar_url = avatar_url,
                                       !.updated_at = now])])
          ELSE Reply(r, [req[r] EXCEPT !.user = user],
                     Redirect(user[1], "google", now))
    /\ UNCHANGED <<harness, store, now, nextId, nextNonce, history>>

(***************************************************************************)
(* GET /auth/github/callback, after the state check                        *)
(***************************************************************************)
\* POST github.com/login/oauth/access_token; non-200 or no access_token -> 400
github_callback_exchange(r) ==
    /\ pc[r] = "cb_exchange"
    /\ req[r].op = "github_callback"
    /\ \E token_resp \in {[status |-> 200, access_token |-> Some("t")],
                          [status |-> 200, access_token |-> None],
                          [status |-> 400, access_token |-> None]} :
         LET q == [req[r] EXCEPT !.net = @ + 1,
                                 !.non200 = (token_resp.status # 200)]
         IN IF token_resp.status # 200 THEN Reply(r, q, HttpError(400))
            ELSE IF IsNone(token_resp.access_token)
            THEN Reply(r, q, HttpError(400))
            ELSE Goto(r, "cb_userinfo", q)
    /\ UNCHANGED <<harness, store, now, nextId, nextNonce, history>>

\* GET api.github.com/user (its status is not looked at) and GET
\* api.github.com/user/emails; lines 407-423
github_callback_userinfo(r) ==
    /\ pc[r] = "cb_userinfo"
    /\ req[r].op = "github_callback"
    /\ \E user_resp \in GithubUser, email_resp \in GithubEmails :
         LET gh_user == user_resp.json
             email == github_email(gh_user, email_resp, nextId)
             oauth_id == IF IsNone(gh_user.id) THEN "" ELSE gh_user.id[1]
         IN Goto(r, "cb_get_index",
                 [req[r] EXCEPT !.net = @ + 2,
                                !.non200 = (user_resp.status # 200),
                                !.ident = Some(Identity(email, oauth_id,
                                     gh_user.avatar_url, gh_user.bio,
                                     gh_user.location, gh_user.blog))])
    /\ UNCHANGED <<harness, store, now, nextId, nextNonce, history>>

\* a mutant: the merge also links the record to the GitHub identity
github_callback_get_user_relink(r) ==
    /\ pc[r] = "cb_get_user"
    /\ req[r].op = "github_callback"
    /\ LET user == Get(users, req[r].uid[1])
       IN IF IsNone(user) THEN Goto(r, "cb_set_user", req[r])
          ELSE Goto(r, "cb_set_user",
                    [req[r] EXCEPT !.user = Some([user[1] EXCEPT
                                       !.avatar_url = req[r].ident[1].avatar_url,
                                       !.provider = "github",
                                       !.oauth_id = req[r].ident[1].oauth_id,
                                       !.updated_at = now])])
    /\ UNCHANGED <<harness, store, now, nextId, nextNonce, history>>

\* redis_get_user: GET user:<uid>; the else branch sets avatar_url, updated_at
github_callback_get_user(r) ==
    /\ pc[r] = "cb_get_user"
    /\ req[r].op = "github_callback"
    /\ LET user == Get(users, req[r].uid[1])
       IN IF IsNone(user) THEN Goto(r, "cb_set_user", req[r])
          ELSE Goto(r, "cb_set_user",
                    [req[r] EXCEPT !.user = Some([user[1] EXCEPT
                                       !.avatar_url = req[r].ident[1].avatar_url,
                                       !.updated_at = now])])
    /\ UNCHANGED <<harness, store, now, nextId, nextNonce, history>>

(***************************************************************************)
(* Find or create, the same in both callbacks                              *)
(***************************************************************************)
\* redis_get_user_by_email: GET email_to_id:<email>
callback_get_index(r, provider) ==
    /\ pc[r] = "cb_get_index"
    /\ req[r].op = provider \o "_callback"
    /\ LET uid == Get(email_to_id, Lower(req[r].ident[1].email))
       IN Goto(r, IF IsNone(uid) THEN "cb_set_user" ELSE "cb_get_user",
               [req[r] EXCEPT !.uid = uid])
    /\ UNCHANGED <<harness, store, now, nextId, nextNonce, history>>

\* a mutant: a new record is stored as an e-mail account
callback_set_user_as_email(r, provider) ==
    /\ pc[r] = "cb_set_user"
    /\ req[r].op = provider \o "_callback"
    /\ IF IsNone(req[r].user)
       THEN LET user == NewUser(nextId, req[r].ident[1].email, EmptyHash,
                                req[r].ident[1], "email", now)
            IN /\ users' = Put(users, nextId, user)
               /\ nextId' = nextId + 1
               /\ Goto(r, "cb_set_index",
                       [req[r] EXCEPT !.newid = nextId, !.user = Some(user)])
       ELSE /\ users' = Put(users, req[r].user[1].user_id, req[r].user[1])
            /\ nextId' = nextId
            /\ Goto(r, "cb_set_index", req[r])
    /\ UNCHANGED <<harness, email_to_id, users_all, oauth_state, now, nextNonce, history>>

\* redis_set_user: SET user:<id>, of a new record (uuid4) or of the merged one
callback_set_user(r, provider) ==
    /\ pc[r] = "cb_set_user"
    /\ req[r].op = provider \o "_callback"
    /\ IF IsNone(req[r].user)
       THEN LET user == NewUser(nextId, req[r].ident[1].email, EmptyHash,
                                req[r].ident[1], provider, now)
            IN /\ users' = Put(users, nextId, user)
               /\ nextId' = nextId + 1
               /\ Goto(r, "cb_set_index",
                       [req[r] EXCEPT !.newid = nextId, !.user = Some(user)])
       ELSE /\ users' = Put(users, req[r].user[1].user_id, req[r].user[1])
            /\ nextId' = nextId
            /\ Goto(r, "cb_set_index", req[r])
    /\ UNCHANGED <<harness, email_to_id, users_all, oauth_state, now, nextNonce, history>>

\* redis_set_user: SET email_to_id:<email.lower()>; a merge then redirects
callback_set_index(r, provider) ==
    /\ pc[r] = "cb_set_index"
    /\ req[r].op = provider \o "_callback"
    /\ email_to_id' = Put(email_to_id, Lower(req[r].user[1].email),
                          req[r].user[1].user_id)
    /\ IF req[r].newid # 0 THEN Goto(r, "cb_sadd", req[r])
       ELSE Reply(r, req[r], Redirect(req[r].user[1], provider, now))
    /\ UNCHANGED <<harness, users, users_all, oauth_state, now, nextId, nextNonce, history>>

\* redis_add_to_index: SADD users:all; then the redirect with the token
callback_sadd(r, provider) ==
    /\ pc[r] = "cb_sadd"
    /\ req[r].op = provider \o "_callback"
    /\ users_all' = users_all \cup {req[r].newid}
    /\ Reply(r, req[r], Redirect(req[r].user[1], provider, now))
    /\ UNCHANGED <<harness, users, email_to_id, oauth_state, now, nextId, nextNonce, history>>

google_callback_get_index(r) == callback_get_index(r, "google")

google_callback_set_user(r) == callback_set_user(r, "google")

google_callback_set_index(r) == callback_set_index(r, "google")

google_callback_sadd(r) == callback_sadd(r, "google")

github_callback_get_index(r) == callback_get_index(r, "github")

github_callback_set_user(r) == callback_set_user(r, "github")

github_callback_set_index(r) == callback_set_index(r, "github")

github_callback_sadd(r) == callback_sadd(r, "github")

(***************************************************************************)
(* The Session Guard                                                       *)
(***************************************************************************)
Garbage == [form |-> "garbage", sub |-> 0, key |-> "", exp |-> 0]
Forged == [form |-> "jwt", sub |-> 1, key |-> OtherKey,
           exp |-> (MaxTicks + 1) * TickSeconds]
Times == {k * TickSeconds : k \in 0..MaxTicks}

\* what a client may present at time t: no Authorization header, a string
\* that is no JWT, a JWT signed with another key, or a token the server may
\* have issued by then
TokenInputs(t) ==
    {None, Some(Garbage), Some(Forged)} \cup
    {Some(create_access_token(u, None, t0)) :
        u \in 1..(nextId - 1), t0 \in {x \in Times : x <= t}}

GuardOutcome(status, user, consulted) ==
    [status |-> status, user |-> user, consulted |-> consulted]

\* a mutant: loads the record before it looks at the token
get_current_user_lookup_first(token, t, db) ==
    LET sub == IF IsNone(token) THEN 0 ELSE token[1].sub
        user == Get(db, sub)
    IN IF IsNone(user) THEN GuardOutcome(404, None, TRUE)
       ELSE IF IsNone(token) \/ IsNone(verify_token(token[1], t))
       THEN GuardOutcome(401, None, TRUE)
       ELSE GuardOutcome(200, user, TRUE)

\* oauth2_scheme answers 401 when the header is missing; verify_token;
\* redis_get_user: GET user:<sub>
get_current_user(token, t, db) ==
    IF IsNone(token) THEN GuardOutcome(401, None, FALSE)
    ELSE LET user_id == verify_token(token[1], t)
         IN IF IsNone(user_id) THEN GuardOutcome(401, None, FALSE)
            ELSE LET user == Get(db, user_id[1])
                 IN IF IsNone(user) THEN GuardOutcome(404, None, TRUE)
                    ELSE GuardOutcome(200, user, TRUE)

GuardError(g) == IF g.status = 401 THEN Unauthorized ELSE HttpError(g.status)

Guarded(op, token, g) ==
    [NoReq EXCEPT !.op = op, !.token = token, !.at = now, !.user = g.user,
                  !.consulted = g.consulted,
                  !.sub = IF IsNone(g.user) THEN 0 ELSE g.user[1].user_id]

\* a mutant: the record is returned as it is stored
WithoutPasswordHash_keep(user) == user

\* {k: v for k, v in user.items() if k != "password_hash"}
WithoutPasswordHash(user) ==
    [k \in (DOMAIN user) \ {"password_hash"} |-> user[k]]

(***************************************************************************)
(* GET /users/me                                                           *)
(***************************************************************************)
get_my_profile(r) ==
    /\ Free(r)
    /\ \E token \in TokenInputs(now) :
         LET g == get_current_user(token, now, users)
             q == Guarded("get_my_profile", token, g)
         IN IF g.status # 200 THEN Reply(r, q, GuardError(g))
            ELSE Reply(r, q, [NoResp EXCEPT !.status = 200,
                                 !.user_id = g.user[1].user_id,
                                 !.body = Some(WithoutPasswordHash(g.user[1]))])
    /\ UNCHANGED <<harness, store, now, nextId, nextNonce, history>>

(***************************************************************************)
(* DELETE /users/me                                                        *)
(***************************************************************************)
\* Depends(get_current_user)
delete_my_account_guard(r) ==
    /\ Free(r)
    /\ \E token \in TokenInputs(now) :
         LET g == get_current_user(token, now, users)
             q == Guarded("delete_my_account", token, g)
         IN IF g.status # 200 THEN Reply(r, q, GuardError(g))
            ELSE Goto(r, "del_get_user", q)
    /\ UNCHANGED <<harness, store, now, nextId, nextNonce, history>>

\* redis_delete_user: user = redis_get_user(r, user_id)
redis_delete_user_get(r) ==
    /\ pc[r] = "del_get_user"
    /\ LET user == Get(users, req[r].sub)
       IN Goto(r, IF IsNone(user) THEN "del_user" ELSE "del_index",
               [req[r] EXCEPT !.user = user])
    /\ UNCHANGED <<harness, store, now, nextId, nextNonce, history>>

\* a mutant: the e-mail index entry is left behind
redis_delete_user_index_skip(r) ==
    /\ pc[r] = "del_index"
    /\ Goto(r, "del_user", req[r])
    /\ UNCHANGED <<harness, store, now, nextId, nextNonce, history>>

\* redis_delete_user: r.delete("email_to_id:<email.lower()>")
redis_delete_user_index(r) ==
    /\ pc[r] = "del_index"
    /\ email_to_id' = Del(email_to_id, Lower(req[r].user[1].email))
    /\ Goto(r, "del_user", req[r])
    /\ UNCHANGED <<harness, users, users_all, oauth_state, now, nextId, nextNonce, history>>

\* redis_delete_user: r.delete("user:<id>")
redis_delete_user_record(r) ==
    /\ pc[r] = "del_user"
    /\ users' = Del(users, req[r].sub)
    /\ Goto(r, "del_srem", req[r])
    /\ UNCHANGED <<harness, email_to_id, users_all, oauth_state, now, nextId, nextNonce,
                   history>>

\* a mutant: deleting an id whose record was not found is an error
redis_delete_user_srem_raises(r) ==
    /\ pc[r] = "del_srem"
    /\ users_all' = users_all \ {req[r].sub}
    /\ Reply(r, req[r],
             [NoResp EXCEPT !.status = IF IsNone(req[r].user) THEN 500 ELSE 200])
    /\ freed' = freed \cup
          (IF IsNone(req[r].user) THEN {} ELSE {Lower(req[r].user[1].email)})
    /\ deleted' = deleted \cup {req[r].sub}
    /\ UNCHANGED <<harness, users, email_to_id, oauth_state, now, nextId, nextNonce,
                   registered, issued_at, passed>>

\* redis_delete_user: r.srem("users:all", id); then the handler's message
redis_delete_user_srem(r) ==
    /\ pc[r] = "del_srem"
    /\ users_all' = users_all \ {req[r].sub}
    /\ Reply(r, req[r], [NoResp EXCEPT !.status = 200])
    /\ freed' = freed \cup
          (IF IsNone(req[r].user) THEN {} ELSE {Lower(req[r].user[1].email)})
    /\ deleted' = deleted \cup {req[r].sub}
    /\ UNCHANGED <<harness, users, email_to_id, oauth_state, now, nextId, nextNonce,
                   registered, issued_at, passed>>

(***************************************************************************)
(* PUT /users/me                                                           *)
(***************************************************************************)
\* UserUpdate: every field is optional
NoUpdate == [display_name |-> None, bio |-> None, interests |-> None,
             avatar_url |-> None, location |-> None, website |-> None]
UserUpdates ==
    {NoUpdate,
     [NoUpdate EXCEPT !.display_name = Some("new"), !.bio = Some("")],
     [NoUpdate EXCEPT !.interests = Some("newint"), !.avatar_url = Some("newpic"),
                      !.location = Some("newloc"), !.website = Some("newweb")]}

\* a mutant: a field the payload leaves out is cleared
ApplyUpdate_clears(current_user, payload, t) ==
    [k \in DOMAIN current_user |->
        IF k = "updated_at" THEN t
        ELSE IF k \in DOMAIN payload
        THEN (IF IsNone(payload[k]) THEN "" ELSE payload[k][1])
        ELSE current_user[k]]

\* updated = {**current_user}; `if payload.x is not None: updated[x] = ...`
ApplyUpdate(current_user, payload, t) ==
    [current_user EXCEPT
        !.display_name = IF IsNone(payload.display_name) THEN @
                         ELSE payload.display_name[1],
        !.bio = IF IsNone(payload.bio) THEN @ ELSE payload.bio[1],
        !.interests = IF IsNone(payload.interests) THEN @
                      ELSE payload.interests[1],
        !.avatar_url = IF IsNone(payload.avatar_url) THEN @
                       ELSE payload.avatar_url[1],
        !.location = IF IsNone(payload.location) THEN @
                     ELSE payload.location[1],
        !.website = IF IsNone(payload.website) THEN @ ELSE payload.website[1],
        !.updated_at = t]

\* Depends(get_current_user); the handler builds `updated`
update_my_profile_guard(r) ==
    /\ Free(r)
    /\ \E token \in TokenInputs(now), payload \in UserUpdates :
         LET g == get_current_user(token, now, users)
             q == [Guarded("update_my_profile", token, g)
                      EXCEPT !.payload = Some(payload)]
         IN IF g.status # 200 THEN Reply(r, q, GuardError(g))
            ELSE Goto(r, "put_set_user",
                      [q EXCEPT !.stored = g.user,
                                !.user = Some(ApplyUpdate(g.user[1], payload,
                                                          now))])
    /\ UNCHANGED <<harness, store, now, nextId, nextNonce, history>>

\* redis_set_user: SET user:<id>
update_my_profile_set_user(r) ==
    /\ pc[r] = "put_set_user"
    /\ users' = Put(users, req[r].sub, req[r].user[1])
    /\ Goto(r, "put_set_index", req[r])
    /\ UNCHANGED <<harness, email_to_id, users_all, oauth_state, now, nextId, nextNonce,
                   history>>

\* redis_set_user: SET email_to_id:<email.lower()>; then the updated profile
update_my_profile_set_index(r) ==
    /\ pc[r] = "put_set_index"
    /\ email_to_id' = Put(email_to_id, Lower(req[r].user[1].email), req[r].sub)
    /\ Reply(r, req[r], [NoResp EXCEPT !.status = 200,
                            !.user_id = req[r].sub,
                            !.body = Some(WithoutPasswordHash(req[r].user[1]))])
    /\ UNCHANGED <<harness, users, users_all, oauth_state, now, nextId, nextNonce,
                   history>>

(***************************************************************************)
(* GET /users/{user_id}                                                    *)
(***************************************************************************)
public_user_view(user) ==
    [user_id |-> user.user_id, display_name |-> user.display_name,
     bio |-> user.bio, interests |-> user.interests,
     avatar_url |-> user.avatar_url, location |-> user.location,
     website |-> user.website, provider |-> user.provider,
     created_at |-> user.created_at]

\* Depends(get_current_user)
get_user_profile_guard(r) ==
    /\ Free(r)
    /\ \E token \in TokenInputs(now), user_id \in UserIds :
         LET g == get_current_user(token, now, users)
             q == [Guarded("get_user_profile", token, g)
                      EXCEPT !.target = user_id]
         IN IF g.status # 200 THEN Reply(r, q, GuardError(g))
            ELSE Goto(r, "get_user", q)
    /\ UNCHANGED <<harness, store, now, nextId, nextNonce, history>>

\* redis_get_user: GET user:<user_id>; `if not user: raise 404`
get_user_profile_get(r) ==
    /\ pc[r] = "get_user"
    /\ LET user == Get(users, req[r].target)
       IN IF IsNone(user) THEN Reply(r, req[r], HttpError(404))
          ELSE Reply(r, req[r], [NoResp EXCEPT !.status = 200,
                                    !.user_id = req[r].target,
                                    !.body = Some(public_user_view(user[1]))])
    /\ UNCHANGED <<harness, store, now, nextId, nextNonce, history>>

(***************************************************************************)
(* GET /users/search/query                                                 *)
(***************************************************************************)
Queries == {"a", " a@x ", "NAME", "new"}

\* q.strip() and str.lower() on the queries
Strip(q) == IF q = " a@x " THEN "a@x" ELSE q
LowerQuery(q) == IF q = "NAME" THEN "name" ELSE q

\* `query_lower in text`, for the queries and the field values of the model
Contains(text, query_lower) ==
    <<query_lower, text>> \in {<<"a@x", "a@x.com">>, <<"name", "name">>,
                               <<"new", "new">>, <<"new", "newint">>,
                               <<"new", "newloc">>}

\* the fields redis_search_users joins into `searchable`
Searchable(user) ==
    {user.display_name, user.email, user.bio, user.interests, user.location}

Matches(user, query) ==
    \E text \in Searchable(user) : Contains(text, LowerQuery(query))

\* a mutant: the caller is not taken out of the results
SearchResponse_all(results, current_user) ==
    [NoResp EXCEPT !.status = 200,
                   !.body = Some([results |-> results,
                                  count |-> Cardinality(results)])]

\* what search_users returns: the matches without the caller
SearchResponse(results, current_user) ==
    LET others == {u \in results : u.user_id # current_user.user_id}
    IN [NoResp EXCEPT !.status = 200,
                      !.body = Some([results |-> others,
                                     count |-> Cardinality(others)])]

\* Depends(get_current_user); `if len(q.strip()) < 2: raise 400`
search_users_guard(r) ==
    /\ Free(r)
    /\ \E token \in TokenInputs(now), query \in Queries :
         LET g == get_current_user(token, now, users)
             q == [Guarded("search_users", token, g)
                      EXCEPT !.q = Strip(query)]
         IN IF g.status # 200 THEN Reply(r, q, GuardError(g))
            ELSE IF Len(Strip(query)) < 2 THEN Reply(r, q, HttpError(400))
            ELSE Goto(r, "search_smembers", q)
    /\ UNCHANGED <<harness, store, now, nextId, nextNonce, history>>

\* redis_search_users: SMEMBERS users:all
search_users_smembers(r) ==
    /\ pc[r] = "search_smembers"
    /\ IF users_all = {}
       THEN Reply(r, req[r], SearchResponse({}, req[r].user[1]))
       ELSE Goto(r, "search_get", [req[r] EXCEPT !.ids = users_all])
    /\ UNCHANGED <<harness, store, now, nextId, nextNonce, history>>

\* redis_search_users: GET user:<uid> for the next member; a missing record
\* is skipped; after the last one the handler answers
search_users_get(r) ==
    /\ pc[r] = "search_get"
    /\ \E uid \in req[r].ids :
         LET user == Get(users, uid)
             results == IF ~IsNone(user) /\ Matches(user[1], req[r].q)
                        THEN req[r].results \cup {public_user_view(user[1])}
                        ELSE req[r].results
             q == [req[r] EXCEPT !.ids = @ \ {uid}, !.results = results]
         IN IF q.ids = {}
            THEN Reply(r, q, SearchResponse(results, req[r].user[1]))
            ELSE Goto(r, "search_get", q)
    /\ UNCHANGED <<harness, store, now, nextId, nextNonce, history>>

(***************************************************************************)
(* The environment: the client reads the response, and time passes.        *)
(***************************************************************************)
Return(r) ==
    /\ pc[r] = "done"
    /\ pc' = [pc EXCEPT ![r] = "idle"]
    /\ req' = [req EXCEPT ![r] = NoReq]
    /\ resp' = [resp EXCEPT ![r] = NoResp]
    /\ UNCHANGED <<harness, store, now, nextId, nextNonce, history>>

\* a key set with SETEX is gone once its time to live has passed
Tick ==
    /\ now < MaxTicks * TickSeconds
    /\ now' = now + TickSeconds
    /\ oauth_state' = [n \in {m \in DOMAIN oauth_state :
                                 oauth_state[m].expires > now'}
                          |-> oauth_state[n]]
    /\ UNCHANGED <<harness, users, email_to_id, users_all, nextId, nextNonce, pc, req,
                   resp, history>>

Step(r) ==
    \/ register_get_index(r)
    \/ register_get_user(r)
    \/ register_set_user(r)
    \/ register_set_index(r)
    \/ register_sadd(r)
    \/ login_get_index(r)
    \/ login_get_user(r)
    \/ google_login(r)
    \/ github_login(r)
    \/ google_callback_get_state(r)
    \/ google_callback_del_state(r)
    \/ google_callback_exchange(r)
    \/ google_callback_userinfo(r)
    \/ google_callback_get_index(r)
    \/ google_callback_get_user(r)
    \/ google_callback_set_user(r)
    \/ google_callback_set_index(r)
    \/ google_callback_sadd(r)
    \/ github_callback_get_state(r)
    \/ github_callback_del_state(r)
    \/ github_callback_exchange(r)
    \/ github_callback_userinfo(r)
    \/ github_callback_get_index(r)
    \/ github_callback_get_user(r)
    \/ github_callback_set_user(r)
    \/ github_callback_set_index(r)
    \/ github_callback_sadd(r)
    \/ get_my_profile(r)
    \/ delete_my_account_guard(r)
    \/ redis_delete_user_get(r)
    \/ redis_delete_user_index(r)
    \/ redis_delete_user_record(r)
    \/ redis_delete_user_srem(r)
    \/ Return(r)

\* the profile routes
ProfileStep(r) ==
    \/ update_my_profile_guard(r)
    \/ update_my_profile_set_user(r)
    \/ update_my_profile_set_index(r)
    \/ get_user_profile_guard(r)
    \/ get_user_profile_get(r)
    \/ search_users_guard(r)
    \/ search_users_smembers(r)
    \/ search_users_get(r)

Next == Tick \/ \E r \in Reqs : Step(r) \/ ProfileStep(r)

Spec == Init /\ [][Next]_vars

\* one request at a time: every request is served by slot 1, and the next
\* one starts when it has returned
NextSeq == Tick \/ Step(1)
SpecSeq == Init /\ [][NextSeq]_vars

\* every route, one request at a time, while the clock stands still
NextProfile ==
    \/ register_get_index(1)
    \/ register_get_user(1)
    \/ register_set_user(1)
    \/ register_set_index(1)
    \/ register_sadd(1)
    \/ login_get_index(1)
    \/ login_get_user(1)
    \/ google_login(1)
    \/ google_callback_get_state(1)
    \/ google_callback_del_state(1)
    \/ google_callback_exchange(1)
    \/ google_callback_userinfo(1)
    \/ google_callback_get_index(1)
    \/ google_callback_get_user(1)
    \/ google_callback_set_user(1)
    \/ google_callback_set_index(1)
    \/ google_callback_sadd(1)
    \/ github_login(1)
    \/ github_callback_get_state(1)
    \/ github_callback_del_state(1)
    \/ github_callback_exchange(1)
    \/ github_callback_userinfo(1)
    \/ github_callback_get_index(1)
    \/ github_callback_get_user(1)
    \/ github_callback_set_user(1)
    \/ github_callback_set_index(1)
    \/ github_callback_sadd(1)
    \/ get_my_profile(1)
    \/ delete_my_account_guard(1)
    \/ redis_delete_user_get(1)
    \/ redis_delete_user_index(1)
    \/ redis_delete_user_record(1)
    \/ redis_delete_user_srem(1)
    \/ ProfileStep(1)
    \/ Return(1)
SpecProfile == Init /\ [][NextProfile]_vars

\* PUT /users/me with an empty payload, served while a deletion is in flight
update_during_delete(r) ==
    /\ \E s \in Reqs : req[s].op = "delete_my_account" /\ pc[s] # "done"
    /\ update_my_profile_guard(r)
    /\ req'[r].payload = Some(NoUpdate)

\* a second DELETE /users/me, served while a deletion is in flight
delete_during_delete(r) ==
    /\ \E s \in Reqs : req[s].op = "delete_my_account" /\ pc[s] # "done"
    /\ delete_my_account_guard(r)

\* registrations, logins and deletions served one at a time by one worker,
\* and a second worker that serves a PUT /users/me or a second DELETE /users/me
\* during a deletion
NextOverlap ==
    \/ register_get_index(1)
    \/ register_get_user(1)
    \/ register_set_user(1)
    \/ register_set_index(1)
    \/ register_sadd(1)
    \/ login_get_index(1)
    \/ login_get_user(1)
    \/ delete_my_account_guard(1)
    \/ redis_delete_user_get(1)
    \/ redis_delete_user_index(1)
    \/ redis_delete_user_record(1)
    \/ redis_delete_user_srem(1)
    \/ Return(1)
    \/ update_during_delete(2)
    \/ update_my_profile_set_user(2)
    \/ update_my_profile_set_index(2)
    \/ delete_during_delete(2)
    \/ redis_delete_user_get(2)
    \/ redis_delete_user_index(2)
    \/ redis_delete_user_record(2)
    \/ redis_delete_user_srem(2)
    \/ Return(2)
SpecOverlap == Init /\ [][NextOverlap]_vars

\* registrations and deletions served one at a time by one worker, and a
\* second worker that serves searches and public-profile reads meanwhile
NextDirectory ==
    \/ register_get_index(1)
    \/ register_get_user(1)
    \/ register_set_user(1)
    \/ register_set_index(1)
    \/ register_sadd(1)
    \/ delete_my_account_guard(1)
    \/ redis_delete_user_get(1)
    \/ redis_delete_user_index(1)
    \/ redis_delete_user_record(1)
    \/ redis_delete_user_srem(1)
    \/ Return(1)
    \/ search_users_guard(2)
    \/ search_users_smembers(2)
    \/ search_users_get(2)
    \/ get_user_profile_guard(2)
    \/ get_user_profile_get(2)
    \/ Return(2)
SpecDirectory == Init /\ [][NextDirectory]_vars

\* requests that create or merge accounts, served concurrently
RaceStep(r) ==
    \/ register_get_index(r)
    \/ register_get_user(r)
    \/ register_set_user(r)
    \/ register_set_index(r)
    \/ register_sadd(r)
    \/ google_login(r)
    \/ github_login(r)
    \/ google_callback_get_state(r)
    \/ google_callback_del_state(r)
    \/ google_callback_exchange(r)
    \/ google_callback_userinfo(r)
    \/ google_callback_get_index(r)
    \/ google_callback_get_user(r)
    \/ google_callback_set_user(r)
    \/ google_callback_set_index(r)
    \/ google_callback_sadd(r)
    \/ github_callback_get_state(r)
    \/ github_callback_del_state(r)
    \/ github_callback_exchange(r)
    \/ github_callback_userinfo(r)
    \/ github_callback_get_index(r)
    \/ github_callback_get_user(r)
    \/ github_callback_set_user(r)
    \/ github_callback_set_index(r)
    \/ github_callback_sadd(r)
    \/ Return(r)

NextRace == \E r \in Reqs : RaceStep(r)
SpecRace == Init /\ [][NextRace]_vars

(***************************************************************************)
(* The token service on its own: create_access_token for a subject and an  *)
(* expires_delta, then verify_token as time passes.                        *)
(***************************************************************************)
ExpiresDeltas == {None, Some(0), Some(300), Some(600)}

InitToken ==
    /\ users = <<>>
    /\ email_to_id = <<>>
    /\ users_all = {}
    /\ oauth_state = <<>>
    /\ now = 0
    /\ nextId = 1
    /\ nextNonce = 1
    /\ pc = [r \in Reqs |-> "idle"]
    /\ req = [r \in Reqs |-> NoReq]
    /\ resp = [r \in Reqs |-> NoResp]
    /\ registered = {}
    /\ issued_at = <<>>
    /\ passed = [n \in Nonces |-> 0]
    /\ freed = {}
    /\ deleted = {}
    /\ \E sub \in UserIds, ttl \in ExpiresDeltas :
         tk = [NoToken EXCEPT !.phase = "new", !.sub = sub, !.ttl = ttl]
    /\ em = NoEmail
    /\ app = NoApp
    /\ oauth_callbacks = NoCallbacks

token_issue ==
    /\ tk.phase = "new"
    /\ tk' = [tk EXCEPT !.phase = "issued", !.t0 = now,
                        !.token = Some(create_access_token(tk.sub, tk.ttl, now))]
    /\ UNCHANGED <<store, now, nextId, nextNonce, pc, req, resp, history, em, app,
                   oauth_callbacks>>

\* the token re-signed with a key that is not the server's
token_forge ==
    /\ tk.phase = "issued"
    /\ tk.token[1].key = SECRET_KEY
    /\ tk' = [tk EXCEPT !.token = Some([tk.token[1] EXCEPT !.key = OtherKey])]
    /\ UNCHANGED <<store, now, nextId, nextNonce, pc, req, resp, history, em, app,
                   oauth_callbacks>>

token_verify ==
    /\ tk.phase \in {"issued", "verified"}
    /\ tk' = [tk EXCEPT !.phase = "verified", !.t = now,
                        !.result = verify_token(tk.token[1], now)]
    /\ UNCHANGED <<store, now, nextId, nextNonce, pc, req, resp, history, em, app,
                   oauth_callbacks>>

token_tick ==
    /\ now < MaxTokenTicks * TokenTickSeconds
    /\ now' = now + TokenTickSeconds
    /\ UNCHANGED <<store, nextId, nextNonce, pc, req, resp, history, tk, em, app,
                   oauth_callbacks>>

NextToken == token_issue \/ token_forge \/ token_verify \/ token_tick
SpecToken == InitToken /\ [][NextToken]_vars

(***************************************************************************)
(* E-mail resolution on its own: github_email for every profile and every  *)
(* answer of /user/emails with up to MaxEmails entries.                    *)
(***************************************************************************)
EmailEntries == {[email |-> "A@x.com", primary |-> TRUE, verified |-> TRUE],
                 [email |-> "b@x.com", primary |-> TRUE, verified |-> TRUE],
                 [email |-> "A@x.com", primary |-> TRUE, verified |-> FALSE],
                 [email |-> "b@x.com", primary |-> FALSE, verified |-> TRUE]}
EmailLists == UNION {[1..k -> EmailEntries] : k \in 0..MaxEmails}
EmailAnswers == {[status |-> st, json |-> l] : st \in {200, 403}, l \in EmailLists}
Profiles == {[GithubError EXCEPT !.id = id, !.email = e] :
                id \in {None, Some("7")},
                e \in {None, Some(""), Some("B@x.com")}}

InitEmail ==
    /\ users = <<>>
    /\ email_to_id = <<>>
    /\ users_all = {}
    /\ oauth_state = <<>>
    /\ now = 0
    /\ nextId = 1
    /\ nextNonce = 1
    /\ pc = [r \in Reqs |-> "idle"]
    /\ req = [r \in Reqs |-> NoReq]
    /\ resp = [r \in Reqs |-> NoResp]
    /\ registered = {}
    /\ issued_at = <<>>
    /\ passed = [n \in Nonces |-> 0]
    /\ freed = {}
    /\ deleted = {}
    /\ tk = NoToken
    /\ \E gh_user \in Profiles, email_resp \in EmailAnswers, n \in UserIds :
         em = [NoEmail EXCEPT !.phase = "new", !.gh_user = Some(gh_user),
                              !.email_resp = Some(email_resp), !.n = n]
    /\ app = NoApp
    /\ oauth_callbacks = NoCallbacks

email_resolve ==
    /\ em.phase = "new"
    /\ em' = [em EXCEPT !.phase = "resolved",
                        !.email = github_email(em.gh_user[1], em.email_resp[1],
                                               em.n)]
    /\ UNCHANGED <<store, now, nextId, nextNonce, pc, req, resp, history, tk, app,
                   oauth_callbacks>>

NextEmail == email_resolve
SpecEmail == InitEmail /\ [][NextEmail]_vars

(***************************************************************************)
(* The desktop client: OtherUsAPI (token, current_user), the page's view   *)
(* stack, the handler that runs on a click and one background thread.  A   *)
(* call of the API client is sent to slot 1 of the backend and its         *)
(* response is read back from it.                                          *)
(***************************************************************************)
Routes == {"/home", "/profile", "/search", "/user/1", "/settings", "/login"}
ClientEmail == "a@x.com"

\* _navigate: views.clear(); without a token the login screen; else the
\* screen of the route, HomeScreen for any other route
navigate(route, token) ==
    IF IsNone(token) THEN <<"login">>
    ELSE IF route = "/profile" THEN <<"profile">>
    ELSE IF route = "/search" THEN <<"search">>
    ELSE IF route = "/user/1" THEN <<"user">>
    ELSE IF route = "/settings" THEN <<"settings">>
    ELSE <<"home">>

\* APIError(message, status_code), and the exception httpx raises when no
\* response arrives
APIError(status_code) == [name |-> "APIError", status_code |-> status_code]
TransportError == [name |-> "Exception", status_code |-> 0]

\* _handle_response: `if resp.status_code >= 400: raise APIError(...)`
Raised(no_response, status_code) ==
    IF no_response THEN Some(TransportError)
    ELSE IF status_code >= 400 THEN Some(APIError(status_code))
    ELSE None

\* what _on_submit and do_auth report when a field is empty
Required == [name |-> "required", status_code |-> 0]

\* the background thread waits for the response to its call
Calling == app.bg \in {"auth_call", "delete_call", "set_call", "oauth_call"}
server == <<store, now, nextId, nextNonce, history, tk, em, oauth_callbacks>>

\* the response in slot 1 is read: the slot is free again
Received ==
    /\ pc[1] = "done"
    /\ pc' = [pc EXCEPT ![1] = "idle"]
    /\ req' = [req EXCEPT ![1] = NoReq]
    /\ resp' = [resp EXCEPT ![1] = NoResp]
    /\ UNCHANGED server

\* on_route_change, and the on_navigate callbacks of the screens
on_route_change ==
    /\ app.ui = "idle"
    /\ \E route \in Routes :
         app' = [app EXCEPT !.views = navigate(route, app.token),
                            !.err = None]
    /\ UNCHANGED <<server, pc, req, resp>>

\* a mutant: logging out deletes the account on the server
logout_revokes ==
    /\ app.ui = "idle"
    /\ app.views = <<"settings">>
    /\ app' = [app EXCEPT !.token = None, !.current_user = None,
                          !.ui = "logout",
                          !.left = IF IsNone(app.token) THEN @ ELSE app.token]
    /\ users' = [u \in {} |-> 0]
    /\ UNCHANGED <<email_to_id, users_all, oauth_state, now, nextId, nextNonce,
                   history, tk, em, oauth_callbacks, pc, req, resp>>

\* SettingsScreen._on_logout: self.api.logout()
logout ==
    /\ app.ui = "idle"
    /\ app.views = <<"settings">>
    /\ app' = [app EXCEPT !.token = None, !.current_user = None,
                          !.ui = "logout",
                          !.left = IF IsNone(app.token) THEN @ ELSE app.token]
    /\ UNCHANGED <<server, pc, req, resp>>

\* SettingsScreen._on_logout: self.on_logout(), which is _navigate("/login")
on_logout ==
    /\ app.ui = "logout"
    /\ app' = [app EXCEPT !.views = navigate("/login", app.token),
                          !.ui = "idle", !.err = None]
    /\ UNCHANGED <<server, pc, req, resp>>

\* LoginScreen._on_submit: without an e-mail or a password a message and
\* nothing else; otherwise _set_loading(True) and the thread do_auth is
\* started (a registration is submitted while an id can still be drawn)
on_submit ==
    /\ app.views = <<"login">>
    /\ app.bg = "none"
    /\ ~app.loading.submit_btn
    /\ pc[1] = "idle"
    /\ \E call \in {"register", "login"}, filled \in BOOLEAN :
         /\ call = "register" => CanAllocate
         /\ app' = IF ~filled THEN [app EXCEPT !.err = Some(Required)]
                   ELSE [app EXCEPT !.bg = "auth_call", !.call = call,
                                    !.err = None,
                                    !.loading = set_loading(TRUE)]
    /\ UNCHANGED <<server, pc, req, resp>>

\* do_auth, registering without a display name: a message, _set_loading(False)
do_auth_no_name ==
    /\ app.bg = "auth_call"
    /\ app.call = "register"
    /\ pc[1] = "idle"
    /\ app' = [app EXCEPT !.bg = "none", !.call = "", !.err = Some(Required),
                          !.loading = set_loading(FALSE)]
    /\ UNCHANGED <<server, pc, req, resp>>

\* OtherUsAPI.register, OtherUsAPI.login: the request (sent at one of the
\* times that tokens are enumerated for)
api_auth_request ==
    /\ app.bg = "auth_call"
    /\ now \in Times
    /\ IF app.call = "register" THEN register_get_index(1)
       ELSE login_get_index(1)
    /\ req'[1].email = ClientEmail
    /\ req'[1].password \in Passwords

\* a mutant: the token of the response is stored before the status is looked at
api_auth_response_stores_first ==
    /\ app.bg = "auth_call"
    /\ Received
    /\ \E no_response \in BOOLEAN :
         LET ex == Raised(no_response, resp[1].status)
         IN IF ~IsNone(ex)
            THEN app' = [app EXCEPT !.token = resp[1].token,
                                    !.bg = "none", !.call = "", !.err = ex,
                                    !.loading = set_loading(FALSE)]
            ELSE app' = [app EXCEPT !.token = resp[1].token,
                                    !.current_user = resp[1].body,
                                    !.bg = "auth_nav", !.call = "",
                                    !.loading = set_loading(FALSE)]

\* OtherUsAPI.register, OtherUsAPI.login: _handle_response raises APIError on
\* a status >= 400 (and the call raises when no response arrives); otherwise
\* token and current_user are set.  do_auth then hides the loading state.
api_auth_response ==
    /\ app.bg = "auth_call"
    /\ Received
    /\ \E no_response \in BOOLEAN :
         LET ex == Raised(no_response, resp[1].status)
         IN IF ~IsNone(ex)
            THEN app' = [app EXCEPT !.bg = "none", !.call = "", !.err = ex,
                                    !.loading = set_loading(FALSE)]
            ELSE app' = [app EXCEPT !.token = resp[1].token,
                                    !.current_user = resp[1].body,
                                    !.bg = "auth_nav", !.call = "",
                                    !.loading = set_loading(FALSE)]

\* a mutant: an exception that is no APIError leaves the loading state set
api_oauth_response_apierror_only ==
    /\ app.bg = "oauth_call"
    /\ Received
    /\ \E no_response \in BOOLEAN :
         app' = [app EXCEPT !.bg = "none", !.call = "",
                            !.err = Raised(no_response, resp[1].status),
                            !.loading = IF no_response THEN @
                                        ELSE set_loading(FALSE)]

\* LoginScreen._open_oauth: _set_loading(True) and the thread do_oauth is
\* started (while a nonce can still be drawn)
open_oauth ==
    /\ app.views = <<"login">>
    /\ app.bg = "none"
    /\ pc[1] = "idle"
    /\ nextNonce <= MaxNonces
    /\ \E provider \in {"google", "github"} :
         /\ ~(IF provider = "google" THEN app.loading.google_btn
                                      ELSE app.loading.github_btn)
         /\ app' = [app EXCEPT !.bg = "oauth_call", !.call = provider,
                               !.err = None, !.loading = set_loading(TRUE)]
    /\ UNCHANGED <<server, pc, req, resp>>

\* OtherUsAPI.get_oauth_login_url: the request
api_oauth_request ==
    /\ app.bg = "oauth_call"
    /\ IF app.call = "google" THEN google_login(1) ELSE github_login(1)

\* OtherUsAPI.get_oauth_login_url: _handle_response; do_oauth opens the
\* browser, or reports the exception, and calls _set_loading(False)
api_oauth_response ==
    /\ app.bg = "oauth_call"
    /\ Received
    /\ \E no_response \in BOOLEAN :
         app' = [app EXCEPT !.bg = "none", !.call = "",
                            !.err = Raised(no_response, resp[1].status),
                            !.loading = set_loading(FALSE)]

\* do_auth: self.on_login(self.api), which is _navigate("/home")
on_login ==
    /\ app.bg = "auth_nav"
    /\ app' = [app EXCEPT !.views = navigate("/home", app.token),
                          !.bg = "none", !.err = None]
    /\ UNCHANGED <<server, pc, req, resp>>

\* SettingsScreen._delete_account: the thread do_delete is started
delete_account_start ==
    /\ app.views = <<"settings">>
    /\ app.bg = "none"
    /\ pc[1] = "idle"
    /\ app' = [app EXCEPT !.bg = "delete_call", !.err = None]
    /\ UNCHANGED <<server, pc, req, resp>>

\* OtherUsAPI.delete_account: the request, with _headers()
api_delete_request ==
    /\ app.bg = "delete_call"
    /\ delete_my_account_guard(1)
    /\ req'[1].token = app.token

\* OtherUsAPI.delete_account: _handle_response, then self.logout()
api_delete_response ==
    /\ app.bg = "delete_call"
    /\ Received
    /\ \E no_response \in BOOLEAN :
         LET ex == Raised(no_response, resp[1].status)
         IN IF ~IsNone(ex)
            THEN app' = [app EXCEPT !.bg = "none", !.err = ex]
            ELSE app' = [app EXCEPT !.token = None, !.current_user = None,
                                    !.bg = "delete_nav",
                                    !.left = IF IsNone(app.token) THEN @
                                             ELSE app.token]

\* do_delete: self.update(), then self.on_logout()
delete_account_on_logout ==
    /\ app.bg = "delete_nav"
    /\ app' = [app EXCEPT !.views = navigate("/login", app.token),
                          !.bg = "none", !.err = None]
    /\ UNCHANGED <<server, pc, req, resp>>

\* handle_oauth_token: the callback server hands over a token and do_set
\* runs; OtherUsAPI.set_token begins with self.token = token
handle_oauth_token ==
    /\ app.bg = "none"
    /\ pc[1] = "idle"
    /\ \E token \in TokenInputs(now) \ {None} :
         app' = [app EXCEPT !.token = token, !.bg = "set_call"]
    /\ UNCHANGED <<server, pc, req, resp>>

\* OtherUsAPI.get_my_profile: the request, with _headers()
api_profile_request ==
    /\ app.bg = "set_call"
    /\ get_my_profile(1)
    /\ req'[1].token = app.token

\* OtherUsAPI.set_token: self.current_user = profile; do_set then clears the
\* view stack and appends HomeScreen.  On an error do_set shows a message.
api_profile_response ==
    /\ app.bg = "set_call"
    /\ Received
    /\ \E no_response \in BOOLEAN :
         LET ex == Raised(no_response, resp[1].status)
         IN IF ~IsNone(ex)
            THEN app' = [app EXCEPT !.bg = "none", !.err = ex]
            ELSE app' = [app EXCEPT !.current_user = resp[1].body,
                                    !.views = <<"home">>,
                                    !.bg = "none", !.err = None]

\* a request from elsewhere that presents to GET /users/me the token the
\* client held when it logged out
other_get_my_profile ==
    /\ ~Calling
    /\ get_my_profile(1)
    /\ req'[1].token = app.left

other_Return ==
    /\ ~Calling
    /\ Return(1)

\* time passes while the client runs
app_tick ==
    /\ now < MaxAppTicks * TokenTickSeconds
    /\ token_tick

\* the desktop client and the backend that serves it
NextApp ==
    \/ on_route_change
    \/ logout
    \/ on_logout
    \/ on_submit
    \/ do_auth_no_name
    \/ api_auth_request
    \/ api_auth_response
    \/ on_login
    \/ delete_account_start
    \/ api_delete_request
    \/ api_delete_response
    \/ delete_account_on_logout
    \/ handle_oauth_token
    \/ api_profile_request
    \/ api_profile_response
    \/ other_get_my_profile
    \/ other_Return
    \/ register_get_user(1)
    \/ register_set_user(1)
    \/ register_set_index(1)
    \/ register_sadd(1)
    \/ login_get_user(1)
    \/ redis_delete_user_get(1)
    \/ redis_delete_user_index(1)
    \/ redis_delete_user_record(1)
    \/ redis_delete_user_srem(1)
    \/ app_tick
SpecApp == Init /\ [][NextApp]_vars

\* the steps of the login screen's background thread and of the backend
\* that serves it: each call of the API client has a timeout, so the thread
\* always takes its next step
LoginThread ==
    \/ do_auth_no_name
    \/ api_auth_request
    \/ register_get_user(1)
    \/ register_set_user(1)
    \/ register_set_index(1)
    \/ register_sadd(1)
    \/ login_get_user(1)
    \/ api_auth_response
    \/ api_oauth_request
    \/ api_oauth_response

\* the login screen: submits and OAuth buttons, and the way back to it
NextLogin ==
    \/ on_submit
    \/ open_oauth
    \/ LoginThread
    \/ on_login
    \/ on_route_change
    \/ logout
    \/ on_logout
SpecLogin == Init /\ [][NextLogin]_vars /\ WF_vars(LoginThread)

(***************************************************************************)
(* The OAuth callback server of the desktop app: the registry               *)
(* _oauth_callbacks, shared by the server's thread and the sessions'        *)
(* threads, and GET /oauth_callback, whose loop over the handlers is one    *)
(* step per handler.                                                        *)
(***************************************************************************)
CallbackTokens == {"", "jwt"}
Range(seq) == {seq[k] : k \in 1..Len(seq)}
Without(seq, s) == SelectSeq(seq, LAMBDA x : x # s)
rest == <<store, now, nextId, nextNonce, pc, req, resp, history, tk, em, app>>

\* main(page): _oauth_callbacks[session_id] = handle_oauth_token
main(s) ==
    /\ s \notin Range(oauth_callbacks.registry)
    /\ s \notin oauth_callbacks.closed
    /\ oauth_callbacks' = [oauth_callbacks EXCEPT !.registry = Append(@, s)]
    /\ UNCHANGED rest

\* on_disconnect: _oauth_callbacks.pop(session_id, None)
on_disconnect(s) ==
    /\ s \in Range(oauth_callbacks.registry)
    /\ oauth_callbacks' = [oauth_callbacks EXCEPT !.registry = Without(@, s),
                                                  !.closed = @ \cup {s}]
    /\ UNCHANGED rest

\* oauth_callback: `if token:` the loop runs over list(_oauth_callbacks.values())
oauth_callback ==
    /\ oauth_callbacks.phase \in {"idle", "done"}
    /\ \E token \in CallbackTokens :
         oauth_callbacks' =
            [oauth_callbacks EXCEPT
                !.phase = "loop", !.token = token,
                !.snapshot = IF token # "" THEN oauth_callbacks.registry
                             ELSE <<>>,
                !.i = 1, !.called = [s \in Sessions |-> 0],
                !.raised = {}, !.late = {}]
    /\ UNCHANGED rest

\* oauth_callback: cb(token, provider) inside try / except Exception: pass
oauth_callback_call ==
    /\ oauth_callbacks.phase = "loop"
    /\ oauth_callbacks.i <= Len(oauth_callbacks.snapshot)
    /\ \E raises \in BOOLEAN :
         LET cb == oauth_callbacks.snapshot[oauth_callbacks.i]
         IN oauth_callbacks' =
               [oauth_callbacks EXCEPT
                   !.i = @ + 1,
                   !.called[cb] = @ + 1,
                   !.raised = IF raises THEN @ \cup {cb} ELSE @,
                   !.late = IF cb \in oauth_callbacks.closed THEN @ \cup {cb}
                            ELSE @]
    /\ UNCHANGED rest

\* oauth_callback: return HTMLResponse(html)
oauth_callback_return ==
    /\ oauth_callbacks.phase = "loop"
    /\ oauth_callbacks.i > Len(oauth_callbacks.snapshot)
    /\ oauth_callbacks' = [oauth_callbacks EXCEPT !.phase = "done"]
    /\ UNCHANGED rest

\* the sessions of the app and the requests to its callback server
NextCallback ==
    \/ \E s \in Sessions : main(s)
    \/ \E s \in Sessions : on_disconnect(s)
    \/ oauth_callback
    \/ oauth_callback_call
    \/ oauth_callback_return
SpecCallback == Init /\ [][NextCallback]_vars

(***************************************************************************)
(* Properties                                                              *)
(***************************************************************************)
Callbacks == {"google_callback", "github_callback"}
Protected == {"get_my_profile", "delete_my_account"}
Started(r) == pc[r] = "idle" /\ pc'[r] # "idle"
RecordsWith(e) == {u \in DOMAIN users : users[u].email = Lower(e)}
\* POST /auth/register answered 200 for this e-mail and the account is still there
Taken(e) == \E a \in registered : a.email = Lower(e) /\ a.uid \in DOMAIN users

\* C1: with requests served one after another, a login for the e-mail of an
\* account that POST /auth/register created (and that has not been deleted)
\* answers 200 with a token for that account when the password is the
\* registered one, and 401 with no token for every other password.
C1_LoginAfterRegister ==
    \A r \in Reqs : (pc[r] = "done" /\ req[r].op = "login") =>
        \A a \in registered :
            (a.email = Lower(req[r].email) /\ a.uid \in DOMAIN users) =>
                IF req[r].password = a.password
                THEN /\ resp[r].status = 200
                     /\ ~IsNone(resp[r].token)
                     /\ resp[r].token[1].sub = a.uid
                     /\ resp[r].token[1].key = SECRET_KEY
                ELSE /\ resp[r].status = 401
                     /\ IsNone(resp[r].token)

C1_Witness ==
    \E r \in Reqs : \E a \in registered :
        /\ pc[r] = "done" /\ req[r].op = "login"
        /\ a.email = Lower(req[r].email) /\ a.uid \in DOMAIN users
        /\ req[r].email = "A@x.com"
        /\ req[r].password = a.password
        /\ resp[r].status = 200

\* C2: with requests served one after another, a POST /auth/register for an
\* e-mail that an earlier register created an account for goes no further
\* than the existence check, answers 400 with no token, writes nothing to the
\* store and leaves exactly one record with that e-mail.
C2_SecondRegisterRejected ==
    [][\A r \in Reqs :
        /\ (Started(r) /\ req'[r].op = "register" /\ Taken(req'[r].email))
              => pc'[r] = "reg_get_user" /\ UNCHANGED store
        /\ (pc[r] = "reg_get_user" /\ pc'[r] # pc[r] /\ Taken(req[r].email))
              => /\ pc'[r] = "done"
                 /\ resp'[r].status = 400
                 /\ IsNone(resp'[r].token)
                 /\ UNCHANGED store
                 /\ Cardinality(RecordsWith(req[r].email)) = 1
                 /\ nextId' = nextId]_vars

C2_Witness ==
    \E r \in Reqs :
        /\ pc[r] = "done" /\ req[r].op = "register" /\ resp[r].status = 400
        /\ Taken(req[r].email)
        /\ Cardinality(RecordsWith(req[r].email)) = 1

\* C3: in every reachable state there is at most one user record per
\* lowercase e-mail, whatever the interleaving of register and callback
\* requests.
C3_OneRecordPerEmail ==
    \A u, v \in DOMAIN users :
        Lower(users[u].email) = Lower(users[v].email) => u = v

\* C4: the Session Guard has three outcomes.  Without a token, or with one
\* that is no JWT, is signed with another key or whose exp has passed (the
\* clock's whole second is beyond exp), the request ends with 401 and the
\* WWW-Authenticate header and no store read;
\* with a valid token whose subject has no record it ends with 404;
\* otherwise the endpoint runs with the record stored for the subject, whose
\* user_id is the subject.
C4_GuardOutcomes ==
    [][\A r \in Reqs : (Started(r) /\ req'[r].op \in Protected) =>
        LET token == req'[r].token
            valid == /\ ~IsNone(token)
                     /\ token[1].form = "jwt"
                     /\ token[1].key = SECRET_KEY
                     /\ ~(now > token[1].exp)
        IN IF ~valid
           THEN /\ pc'[r] = "done"
                /\ resp'[r].status = 401
                /\ "WWW-Authenticate" \in resp'[r].headers
                /\ ~req'[r].consulted
           ELSE IF token[1].sub \notin DOMAIN users
           THEN /\ pc'[r] = "done"
                /\ resp'[r].status = 404
           ELSE /\ resp'[r].status \notin {401, 404}
                /\ req'[r].user = Some(users[token[1].sub])
                /\ req'[r].user[1].user_id = token[1].sub
                /\ req'[r].sub = token[1].sub]_vars

C4_Witness ==
    \E r \in Reqs :
        /\ pc[r] = "done" /\ req[r].op = "get_my_profile"
        /\ resp[r].status = 404
        /\ req[r].token[1].key = SECRET_KEY
        /\ req[r].token[1].exp >= req[r].at

\* C5: a token issued at t0 for sub with lifetime ttl verifies to sub at
\* every t with t0 <= t < t0 + ttl and to None at every t >= t0 + ttl, and a
\* token whose signature is not the server's verifies to None.
C5_TokenLifetime ==
    tk.phase = "verified" =>
        LET ttl == IF IsNone(tk.ttl) THEN ACCESS_TOKEN_EXPIRE_MINUTES * 60
                   ELSE tk.ttl[1]
        IN IF tk.token[1].key # SECRET_KEY THEN IsNone(tk.result)
           ELSE IF tk.t < tk.t0 + ttl THEN tk.result = Some(tk.sub)
           ELSE IsNone(tk.result)

\* C6: with callbacks served one after another, at most one callback per
\* issued nonce passes the state check; a callback whose nonce was never
\* issued, was used before or was issued 600 seconds or more before it
\* arrived is answered 400 without any provider call.
Usable(n, t) ==
    /\ n \in DOMAIN issued_at
    /\ t < issued_at[n] + 600
RejectedAtStateCheck(r) ==
    /\ pc[r] = "done"
    /\ resp[r].status = 400
    /\ req[r].net = 0
    /\ IsNone(resp[r].token)
C6_NonceRedeemedOnce ==
    /\ \A n \in Nonces : passed[n] <= 1
    /\ \A r \in Reqs : (pc[r] # "idle" /\ req[r].op \in Callbacks) =>
          /\ ~Usable(req[r].state, req[r].at) => RejectedAtStateCheck(r)
          /\ IsNone(req[r].stored) => RejectedAtStateCheck(r)
          /\ ~IsNone(req[r].stored) => passed[req[r].state] = 1

C6_Witness ==
    \E r \in Reqs :
        /\ req[r].op \in Callbacks
        /\ Usable(req[r].state, req[r].at)
        /\ passed[req[r].state] = 1
        /\ RejectedAtStateCheck(r)

\* C7: of two callbacks that carry the same nonce and run concurrently, at
\* most one passes the state check and goes on to the code exchange.
Redeemed(r) ==
    /\ pc[r] # "idle"
    /\ req[r].op \in Callbacks
    /\ ~IsNone(req[r].stored)
    /\ req[r].net >= 1
C7_AtMostOneRedeems ==
    \A r1, r2 \in Reqs :
        (Redeemed(r1) /\ Redeemed(r2) /\ req[r1].state = req[r2].state)
            => r1 = r2

\* C8: a callback whose nonce is unknown, consumed or expired is answered
\* 400 in its first step, before any provider call, with no token, and the
\* step leaves the records, the e-mail index, the directory set and the
\* stored nonces as they were.
Redeemable(n) ==
    /\ n \in DOMAIN issued_at
    /\ passed[n] = 0
    /\ now < issued_at[n] + 600
C8_BadStateRejected ==
    [][\A r \in Reqs :
        (Started(r) /\ req'[r].op \in Callbacks /\ ~Redeemable(req'[r].state))
            => /\ pc'[r] = "done"
               /\ resp'[r].status = 400
               /\ IsNone(resp'[r].token)
               /\ req'[r].net = 0
               /\ UNCHANGED <<users, email_to_id, users_all, oauth_state>>]_vars

C8_Witness ==
    \E r \in Reqs :
        /\ RejectedAtStateCheck(r)
        /\ req[r].op \in Callbacks
        /\ req[r].state \in DOMAIN issued_at
        /\ passed[req[r].state] = 1
        /\ users # <<>>
        /\ oauth_state # <<>>

\* C9: in both callbacks, once the code exchange or the profile fetch has
\* answered non-200 the callback creates no record, and it ends with 400 and
\* no token.
C9_ProviderFailureAborts ==
    \A r \in Reqs : (req[r].op \in Callbacks /\ req[r].non200) =>
        /\ req[r].newid = 0
        /\ pc[r] \notin {"cb_set_index", "cb_sadd"}
        /\ pc[r] = "done" => resp[r].status = 400 /\ IsNone(resp[r].token)

\* C10: with requests served one after another, when DELETE /users/me has
\* answered 200 for user u the record, the index entry of u's e-mail and u's
\* directory membership are gone; and a POST /auth/register for the e-mail
\* of a deleted account, when no other record holds that e-mail, answers 200
\* and stores the new account under the e-mail.
C10_DeleteThenRegister ==
    \A r \in Reqs :
        /\ (pc[r] = "done" /\ req[r].op = "delete_my_account"
            /\ resp[r].status = 200)
              => /\ ~IsNone(req[r].user)
                 /\ req[r].sub \notin DOMAIN users
                 /\ Lower(req[r].user[1].email) \notin DOMAIN email_to_id
                 /\ req[r].sub \notin users_all
                 /\ RecordsWith(req[r].user[1].email) = {}
        /\ (pc[r] = "done" /\ req[r].op = "register"
            /\ Lower(req[r].email) \in freed
            /\ RecordsWith(req[r].email) \subseteq {req[r].newid})
              => /\ resp[r].status = 200
                 /\ RecordsWith(req[r].email) = {req[r].newid}
                 /\ Get(email_to_id, Lower(req[r].email)) = Some(req[r].newid)
                 /\ req[r].newid \in users_all

C10_Witness ==
    \E r \in Reqs :
        /\ pc[r] = "done" /\ req[r].op = "register"
        /\ Lower(req[r].email) \in freed
        /\ resp[r].status = 200
        /\ \E a \in registered : a.email = Lower(req[r].email)
                                   /\ a.uid # req[r].newid
                                   /\ a.uid \notin DOMAIN users

ProtectedRoutes ==
    Protected \cup {"update_my_profile", "get_user_profile", "search_users"}
\* the account a presented token names, if the token verifies at time t
Subject(token, t) ==
    IF IsNone(token) THEN None ELSE verify_token(token[1], t)

\* C11: with requests served one after another, an account that DELETE
\* /users/me removed never has a record again, whatever is registered or
\* signed in afterwards, and every route behind the Session Guard answers 404
\* to a token that verifies and names such an account.
C11_DeletedTokenIs404 ==
    [][/\ \A u \in deleted' : u \notin DOMAIN users'
       /\ \A r \in Reqs :
            (/\ Started(r)
             /\ req'[r].op \in ProtectedRoutes
             /\ ~IsNone(Subject(req'[r].token, now))
             /\ Subject(req'[r].token, now)[1] \in deleted)
            => pc'[r] = "done" /\ resp'[r].status = 404]_vars

\* PUT /users/me answered 404 to the token of a deleted account whose former
\* e-mail has been registered again
C11_Witness ==
    \E r \in Reqs :
        /\ pc[r] = "done"
        /\ req[r].op = "update_my_profile"
        /\ ~IsNone(Subject(req[r].token, now))
        /\ Subject(req[r].token, now)[1] \in deleted
        /\ resp[r].status = 404
        /\ \E v \in DOMAIN users :
              users[v].email \in freed /\ v > Subject(req[r].token, now)[1]

UserDataRoutes == {"register", "login", "get_my_profile", "update_my_profile",
                   "get_user_profile"}

\* C12: the body of a 200 answer of register, login, GET /users/me, PUT
\* /users/me and GET /users/{id} has no password_hash field, and neither has
\* any entry of a search result.
C12_NoPasswordHashInBody ==
    \A r \in Reqs :
        pc[r] = "done" /\ resp[r].status = 200 =>
            /\ req[r].op \in UserDataRoutes =>
                  "password_hash" \notin DOMAIN resp[r].body[1]
            /\ req[r].op = "search_users" =>
                  \A u \in resp[r].body[1].results :
                      "password_hash" \notin DOMAIN u

\* PUT /users/me answered with the profile of an account that has a bcrypt hash
C12_Witness ==
    \E r \in Reqs :
        /\ pc[r] = "done"
        /\ req[r].op = "update_my_profile"
        /\ resp[r].status = 200
        /\ users[req[r].sub].password_hash.alg = "bcrypt"
        /\ resp[r].body[1].email = users[req[r].sub].email

\* the handler of slot r takes its step at `loc`
Leaves(r, loc) == pc[r] = loc /\ pc'[r] # loc
\* the provider a callback request belongs to
ProviderOf(op) == IF op = "google_callback" THEN "google" ELSE "github"
\* the subject ids the providers answer with
SubjectIds(provider) ==
    IF provider = "google" THEN {g.sub : g \in GoogleUserinfo}
    ELSE {u.json.id[1] : u \in {x \in GithubUser : x.status = 200}}
\* the record an OAuth callback of this provider creates for this identity
CreatedBy(user, id, ident, provider) ==
    /\ user.user_id = id
    /\ user.email = ident.email
    /\ user.provider = provider
    /\ user.oauth_id = ident.oauth_id
    /\ user.oauth_id \in SubjectIds(provider)
    /\ user.password_hash = EmptyHash

\* C13: with requests served one after another, a callback whose provider
\* calls all answered 200 and whose e-mail get_by_email does not find goes on
\* to create: its SET user: adds exactly one record, under an id no record
\* has or had, with the callback's provider, the provider's subject id and an
\* empty password_hash; its SET email_to_id: points the e-mail at that id;
\* its SADD adds the id to the directory and the redirect carries a token
\* whose subject is that id.
C13_CallbackCreates ==
    [][\A r \in Reqs :
        (req[r].op \in Callbacks /\ ~req[r].non200) =>
          LET provider == ProviderOf(req[r].op)
              id == req'[r].newid
          IN /\ (/\ Leaves(r, "cb_get_index")
                 /\ IsNone(Get(email_to_id, req[r].ident[1].email)))
                => pc'[r] = "cb_set_user" /\ IsNone(req'[r].user)
             /\ (Leaves(r, "cb_set_user") /\ IsNone(req[r].user))
                => /\ pc'[r] = "cb_set_index"
                   /\ id \notin DOMAIN users /\ id \notin deleted
                   /\ \A u \in DOMAIN users : u < id
                   /\ DOMAIN users' = DOMAIN users \cup {id}
                   /\ \A u \in DOMAIN users : users'[u] = users[u]
                   /\ CreatedBy(users'[id], id, req[r].ident[1], provider)
             /\ (Leaves(r, "cb_set_index") /\ req[r].newid # 0)
                => /\ pc'[r] = "cb_sadd"
                   /\ Get(email_to_id', req[r].ident[1].email) = Some(id)
             /\ Leaves(r, "cb_sadd")
                => /\ pc'[r] = "done"
                   /\ id \in users_all'
                   /\ Get(email_to_id', req[r].ident[1].email) = Some(id)
                   /\ CreatedBy(users'[id], id, req[r].ident[1], provider)
                   /\ RecordsWith(req[r].ident[1].email) = {id}
                   /\ resp'[r].status = 302
                   /\ Subject(resp'[r].token, now) = Some(id)]_vars

\* a GitHub callback has created an account and redirected with its token
C13_Witness ==
    \E r \in Reqs :
        /\ pc[r] = "done"
        /\ req[r].op = "github_callback"
        /\ ~req[r].non200
        /\ req[r].newid # 0
        /\ resp[r].status = 302
        /\ users[req[r].newid].provider = "github"
        /\ req[r].newid \in users_all

\* the fields of a record that say whose it is and how it signs in
IdentityFields == {"user_id", "email", "provider", "oauth_id", "password_hash",
                   "created_at"}
SameIdentity(a, b) == \A k \in IdentityFields : a[k] = b[k]

\* C14: with requests served one after another, a callback whose provider
\* calls all answered 200 and whose e-mail already has a record draws no new
\* id and adds no record; what it writes back keeps the record's user_id,
\* email, provider, oauth_id, password_hash and created_at, every other record
\* is untouched, and the redirect carries a token whose subject is the
\* existing record's user_id.
C14_MergeKeepsIdentity ==
    [][\A r \in Reqs :
        (req[r].op \in Callbacks /\ ~req[r].non200) =>
          /\ (/\ Leaves(r, "cb_get_user")
              /\ ~IsNone(Get(users, req[r].uid[1])))
             => /\ req'[r].newid = 0
                /\ users' = users /\ nextId' = nextId
                /\ \/ pc'[r] = "cb_set_user" /\ ~IsNone(req'[r].user)
                   \/ /\ pc'[r] = "done"
                      /\ resp'[r].status = 302
                      /\ Subject(resp'[r].token, now) = req[r].uid
          /\ (Leaves(r, "cb_set_user") /\ ~IsNone(req[r].user))
             => LET id == req[r].uid[1]
                IN /\ nextId' = nextId
                   /\ DOMAIN users' = DOMAIN users
                   /\ SameIdentity(users'[id], users[id])
                   /\ \A u \in DOMAIN users : u # id => users'[u] = users[u]
          /\ (Leaves(r, "cb_set_index") /\ req[r].newid = 0)
             => /\ users' = users /\ nextId' = nextId
                /\ pc'[r] = "done"
                /\ resp'[r].status = 302
                /\ Subject(resp'[r].token, now) = req[r].uid]_vars

\* a GitHub sign-in has been merged into an account made with a password
C14_Witness ==
    \E r \in Reqs :
        /\ pc[r] = "done"
        /\ req[r].op = "github_callback"
        /\ ~req[r].non200
        /\ req[r].newid = 0
        /\ resp[r].status = 302
        /\ ~IsNone(req[r].uid)
        /\ req[r].uid[1] \in DOMAIN users
        /\ users[req[r].uid[1]].provider = "email"
        /\ users[req[r].uid[1]].password_hash.alg = "bcrypt"
        /\ users[req[r].uid[1]].avatar_url = "ghpic"

\* C15: when a GitHub callback whose provider calls all answered 200 writes
\* back a record it found, the stored record has the avatar_url, bio, location
\* and website of the GitHub profile and an updated_at of now.
C15_GithubMergeRefreshes ==
    [][\A r \in Reqs :
        (/\ req[r].op = "github_callback"
         /\ ~req[r].non200
         /\ Leaves(r, "cb_set_user")
         /\ ~IsNone(req[r].user))
        => LET user == users'[req[r].uid[1]]
               ident == req[r].ident[1]
           IN /\ user.avatar_url = ident.avatar_url
              /\ user.bio = ident.bio
              /\ user.location = ident.location
              /\ user.website = ident.website
              /\ user.updated_at >= req[r].at]_vars

\* the entries of an e-mails answer that are flagged primary and verified
PrimaryVerified(emails) ==
    {i \in 1..Len(emails) : emails[i].primary /\ emails[i].verified}
IsLower(e) == Lower(e) = e

\* C16: the e-mail github_callback resolves is the e-mail of the first entry
\* of the e-mails list flagged both primary and verified (the list counts as
\* empty when /user/emails did not answer 200); without such an entry the
\* profile's e-mail when it is not empty; without that the placeholder made
\* from the profile's id, the same for the same id.  It is lowercase.
C16_EmailPriority ==
    em.phase = "resolved" =>
        LET gh_user == em.gh_user[1]
            emails == IF em.email_resp[1].status = 200
                      THEN em.email_resp[1].json ELSE <<>>
            pv == PrimaryVerified(emails)
        IN /\ IsLower(em.email)
           /\ pv # {} =>
                 \E i \in pv : /\ \A j \in pv : i <= j
                               /\ em.email = Lower(emails[i].email)
           /\ (pv = {} /\ gh_user.email \notin {None, Some("")})
                 => em.email = Lower(gh_user.email[1])
           /\ (pv = {} /\ gh_user.email \in {None, Some("")}
                       /\ ~IsNone(gh_user.id))
                 => em.email = Placeholder(gh_user.id[1])

\* the second entry of the list is the first primary and verified one, and the
\* profile has an e-mail of its own
C16_Witness ==
    /\ em.phase = "resolved"
    /\ em.email_resp[1].status = 200
    /\ PrimaryVerified(em.email_resp[1].json) = {2}
    /\ em.gh_user[1].email = Some("B@x.com")
    /\ em.email = "a@x.com"

\* the index has an entry for this e-mail and the record it names is missing
Dangling(e) ==
    /\ Lower(e) \in DOMAIN email_to_id
    /\ email_to_id[Lower(e)] \notin DOMAIN users

\* C17: a login or a registration that finds an index entry goes on to read
\* the record it names; when that record is missing, the login answers 401 and
\* changes nothing, and the registration goes on as for an unknown e-mail:
\* it stores a new record, points the index entry at it and answers 200.
C17_DanglingIndex ==
    [][\A r \in Reqs :
        /\ (Started(r) /\ req'[r].op = "login" /\ Dangling(req'[r].email))
           => pc'[r] = "login_get_user"
        /\ (Leaves(r, "login_get_user") /\ IsNone(Get(users, req[r].uid[1])))
           => /\ pc'[r] = "done"
              /\ resp'[r].status = 401 /\ IsNone(resp'[r].token)
              /\ UNCHANGED store
        /\ (Started(r) /\ req'[r].op = "register" /\ Dangling(req'[r].email))
           => pc'[r] = "reg_get_user"
        /\ (Leaves(r, "reg_get_user") /\ IsNone(Get(users, req[r].uid[1])))
           => pc'[r] = "reg_set_user"
        /\ (Leaves(r, "reg_set_index") /\ ~IsNone(req[r].uid))
           => /\ pc'[r] = "reg_sadd"
              /\ req[r].newid \in DOMAIN users'
              /\ req[r].newid # req[r].uid[1]
              /\ Get(email_to_id', Lower(req[r].email)) = Some(req[r].newid)
        /\ (Leaves(r, "reg_sadd") /\ ~IsNone(req[r].uid))
           => /\ pc'[r] = "done"
              /\ resp'[r].status = 200
              /\ Subject(resp'[r].token, now) = Some(req[r].newid)]_vars

\* a registration found the index entry of a deleted account, whose record
\* was gone, and has answered 200 with the entry pointing at the new record
C17_Witness ==
    \E r \in Reqs :
        /\ pc[r] = "done"
        /\ req[r].op = "register"
        /\ resp[r].status = 200
        /\ ~IsNone(req[r].uid)
        /\ req[r].uid[1] \in deleted
        /\ req[r].uid[1] \notin DOMAIN users
        /\ pc[2] = "idle"
        /\ email_to_id[Lower(req[r].email)] = req[r].newid
        /\ req[r].newid \in DOMAIN users

\* the fields PUT /users/me may set
ProfileFields == DOMAIN NoUpdate

\* C18: the record PUT /users/me stores under the caller's id has the same
\* keys as before, the same user_id, email, password_hash, provider, oauth_id
\* and created_at, and each of display_name, bio, interests, avatar_url,
\* location and website as supplied, or as before when not supplied; only
\* updated_at changes besides.  No other record changes, and the rest of the
\* request changes no record at all.
C18_UpdateFrame ==
    [][\A r \in Reqs :
        /\ Leaves(r, "put_set_user")
           => LET id == req[r].sub
                  payload == req[r].payload[1]
              IN /\ DOMAIN users' = DOMAIN users
                 /\ \A u \in DOMAIN users : u # id => users'[u] = users[u]
                 /\ DOMAIN users'[id] = DOMAIN users[id]
                 /\ SameIdentity(users'[id], users[id])
                 /\ \A k \in ProfileFields :
                       users'[id][k] = IF IsNone(payload[k]) THEN users[id][k]
                                       ELSE payload[k][1]
                 /\ users'[id].updated_at >= req[r].at
        /\ (req[r].op = "update_my_profile" /\ pc'[r] # pc[r]
                                            /\ pc[r] # "put_set_user")
           => users' = users]_vars

\* PUT /users/me has renamed a GitHub account, which is a GitHub account still
C18_Witness ==
    \E r \in Reqs :
        /\ pc[r] = "done"
        /\ req[r].op = "update_my_profile"
        /\ resp[r].status = 200
        /\ req[r].payload[1].display_name = Some("new")
        /\ users[req[r].sub].display_name = "new"
        /\ users[req[r].sub].provider = "github"
        /\ users[req[r].sub].oauth_id = "7"
        /\ users[req[r].sub].avatar_url = "ghpic"

\* C19: a request that updates a record (PUT /users/me, or a callback that
\* merges into a record it found) changes no entry of the e-mail index and
\* leaves the directory set as it is, at each of its steps and in whatever
\* state the store is.
C19_UpdateLeavesIndex ==
    [][\A r \in Reqs :
        (/\ pc'[r] # pc[r]
         /\ \/ req[r].op = "update_my_profile"
            \/ /\ req[r].op \in Callbacks
               /\ pc[r] \in {"cb_set_user", "cb_set_index"}
               /\ req[r].newid = 0 /\ ~IsNone(req[r].user))
        => email_to_id' = email_to_id /\ users_all' = users_all]_vars

\* no request is in flight
Quiescent == \A r \in Reqs : pc[r] = "idle"

\* C20: whenever no request is in flight, every record has an index entry for
\* its e-mail that names it, every index entry names a record with that
\* e-mail, and the directory set holds exactly the ids that have a record.
C20_StructuresAgree ==
    Quiescent =>
        /\ \A u \in DOMAIN users : Get(email_to_id, users[u].email) = Some(u)
        /\ \A e \in DOMAIN email_to_id :
              /\ email_to_id[e] \in DOMAIN users
              /\ users[email_to_id[e]].email = e
        /\ users_all = DOMAIN users

\* redis_delete_user runs in slot r on an id whose record it did not find
\* and that has no record now, and takes a step
DeletesMissing(r) ==
    /\ req[r].op = "delete_my_account"
    /\ pc[r] \in {"del_get_user", "del_user", "del_srem"}
    /\ pc'[r] # pc[r]
    /\ req[r].sub \notin DOMAIN users
    /\ pc[r] # "del_get_user" => IsNone(req[r].user)

MalformedHashes == {EmptyHash} \cup {[alg |-> "none", pw |-> p] : p \in LoginPasswords}

\* C23: verify_password answers false for every plaintext when the stored
\* hash is empty or malformed, and a login that reads a record with an empty
\* password_hash answers 401 with no token whatever the password, the empty
\* password included.
C23_NoPasswordNoLogin ==
    /\ \A p \in LoginPasswords, h \in MalformedHashes : ~verify_password(p, h)
    /\ \A r \in Reqs :
          (/\ pc[r] = "done" /\ req[r].op = "login"
           /\ ~IsNone(req[r].user)
           /\ req[r].user[1].password_hash \in MalformedHashes)
          => /\ resp[r].status = 401
             /\ IsNone(resp[r].token)
             /\ "WWW-Authenticate" \in resp[r].headers

\* a login with the empty password for an account an OAuth callback created
\* was answered 401
C23_Witness ==
    \E r \in Reqs :
        /\ pc[r] = "done" /\ req[r].op = "login"
        /\ req[r].password = ""
        /\ ~IsNone(req[r].user)
        /\ req[r].user[1].provider \in {"google", "github"}
        /\ req[r].user[1].password_hash = EmptyHash
        /\ resp[r].status = 401

\* the request's e-mail is not the stored one and differs from it in letter
\* case only
CaseVariant(e) == ~IsLower(e) /\ Taken(e)

\* C24: with requests served one after another, every stored record's e-mail
\* and every key of the e-mail index is lowercase; a registration for an
\* e-mail that is, up to letter case, the e-mail of a registered account goes
\* to the existence check and answers 400; a login for such an e-mail with
\* the registered password answers 200 with a token for that account.
C24_CaseInsensitive ==
    [][/\ \A u \in DOMAIN users' : IsLower(users'[u].email)
       /\ \A e \in DOMAIN email_to_id' : IsLower(e)
       /\ \A r \in Reqs :
            /\ (Started(r) /\ req'[r].op \in {"register", "login"}
                  /\ Taken(req'[r].email))
               => pc'[r] = IF req'[r].op = "register" THEN "reg_get_user"
                           ELSE "login_get_user"
            /\ (Leaves(r, "reg_get_user") /\ Taken(req[r].email))
               => /\ resp'[r].status = 400
                  /\ UNCHANGED store
            /\ Leaves(r, "login_get_user")
               => \A a \in registered :
                     (/\ a.email = Lower(req[r].email)
                      /\ a.uid \in DOMAIN users
                      /\ a.password = req[r].password)
                     => /\ resp'[r].status = 200
                        /\ Subject(resp'[r].token, now) = Some(a.uid)]_vars

\* an account is stored under a@x.com; a registration for A@x.com was
\* answered 400
C24_Witness ==
    \E r \in Reqs :
        /\ pc[r] = "done" /\ req[r].op = "register"
        /\ CaseVariant(req[r].email)
        /\ resp[r].status = 400
        /\ \A u \in DOMAIN users : IsLower(users[u].email)

\* the fields the search is documented to look at, as the public view has them
NamedFields(view) == {view.display_name, view.bio, view.interests, view.location}

\* C26: every user GET /users/search/query returns matches the query on its
\* display name, bio, interests or location, so that the e-mail addresses in
\* the directory have no bearing on the results.
C26_SearchIgnoresEmail ==
    \A r \in Reqs :
        (pc[r] = "done" /\ req[r].op = "search_users" /\ resp[r].status = 200)
        => \A view \in resp[r].body[1].results :
              \E text \in NamedFields(view) : Contains(text, LowerQuery(req[r].q))

\* C30: a callback gets past the state check only with a nonce that the login
\* route of its own provider stored; with a nonce of the other provider it is
\* answered 400 at the state check.
C30_NonceBoundToProvider ==
    \A r \in Reqs : (pc[r] # "idle" /\ req[r].op \in Callbacks) =>
        IF ~IsNone(req[r].stored)
           /\ req[r].stored[1].provider = ProviderOf(req[r].op)
        THEN TRUE
        ELSE RejectedAtStateCheck(r)

\* C29: once the requests that overlapped have all completed, an account that
\* DELETE /users/me removed has no record and no entry of the e-mail index
\* names it.
C29_DeletedStaysDeleted ==
    Quiescent =>
        \A u \in deleted :
            /\ u \notin DOMAIN users
            /\ \A e \in DOMAIN email_to_id : email_to_id[e] # u

\* the account the token of a request names, if the token verifies
Caller(q) == Subject(q.token, q.at)
Mutating == {"update_my_profile", "delete_my_account"}

\* C27: every step of a PUT /users/me or DELETE /users/me leaves alone every
\* record but the one under the subject of the request's token, every index
\* entry but one that names that subject, every directory membership but
\* that subject's, and every nonce; a request whose token does not verify
\* ends at the guard with 401 and changes nothing.
C27_OwnAccountOnly ==
    [][\A r \in Reqs :
        (req'[r].op \in Mutating /\ pc'[r] # pc[r] /\ pc[r] # "done") =>
            LET caller == Caller(req'[r])
            IN IF IsNone(caller)
               THEN /\ UNCHANGED store
                    /\ pc'[r] = "done"
                    /\ resp'[r].status = 401
               ELSE /\ \A u \in (DOMAIN users \cup DOMAIN users') \ {caller[1]} :
                          Get(users', u) = Get(users, u)
                    /\ \A e \in DOMAIN email_to_id \cup DOMAIN email_to_id' :
                          Get(email_to_id', e) # Get(email_to_id, e)
                          => /\ Get(email_to_id, e) \in {None, caller}
                             /\ Get(email_to_id', e) \in {None, caller}
                    /\ users_all' \ {caller[1]} = users_all \ {caller[1]}
                    /\ UNCHANGED oauth_state]_vars

\* the token of a response is signed by the server and names this account
Names(token, u) ==
    /\ ~IsNone(token)
    /\ token[1].form = "jwt" /\ token[1].key = SECRET_KEY
    /\ token[1].sub = u
    /\ u \in DOMAIN users
    /\ users[u].user_id = u

\* C28: with requests served one after another, the token of a successful
\* register names the record just created for the request's e-mail; the
\* token of a successful login names the record with the request's e-mail
\* whose password was verified; the token of a callback's redirect names the
\* record the index has for the resolved e-mail, found or created; and GET
\* /users/me answers a token with the record under the token's subject.
C28_TokenNamesAccount ==
    \A r \in Reqs : pc[r] = "done" =>
        /\ (req[r].op = "register" /\ resp[r].status = 200)
           => /\ Names(resp[r].token, req[r].newid)
              /\ users[req[r].newid].email = Lower(req[r].email)
              /\ resp[r].user_id = req[r].newid
        /\ (req[r].op = "login" /\ resp[r].status = 200)
           => \E u \in DOMAIN users :
                 /\ Names(resp[r].token, u)
                 /\ users[u].email = Lower(req[r].email)
                 /\ verify_password(req[r].password, users[u].password_hash)
                 /\ resp[r].user_id = u
        /\ (req[r].op \in Callbacks /\ resp[r].status = 302)
           => \E u \in DOMAIN users :
                 /\ Names(resp[r].token, u)
                 /\ users[u].email = req[r].ident[1].email
                 /\ Get(email_to_id, req[r].ident[1].email) = Some(u)
                 /\ req[r].newid # 0 => u = req[r].newid
                 /\ req[r].newid = 0 => req[r].uid = Some(u)
        /\ (req[r].op = "get_my_profile" /\ resp[r].status = 200)
           => /\ Names(req[r].token, resp[r].user_id)
              /\ resp[r].body = Some(WithoutPasswordHash(users[resp[r].user_id]))

\* with one account registered, a sign-in through a provider created a
\* second one and was redirected with a token for it
C28_Witness ==
    \E r \in Reqs :
        /\ pc[r] = "done"
        /\ req[r].op \in Callbacks
        /\ resp[r].status = 302
        /\ req[r].newid = 2
        /\ resp[r].token[1].sub = 2
        /\ users[2].email = req[r].ident[1].email
        /\ 1 \in DOMAIN users

\* the client has logged out and holds no token; `left` is the token it held
LoggedOut == IsNone(app.token) /\ ~IsNone(app.left)
\* a token the backend signed that has not expired, for an account that exists
Unexpired(token) ==
    /\ token.form = "jwt" /\ token.key = SECRET_KEY
    /\ now <= token.exp
    /\ token.sub \in DOMAIN users

\* C22: the step in which the client logs out clears the client's token and
\* current_user and changes nothing on the server: no record, index entry,
\* membership or nonce, no request and no response.  Afterwards GET /users/me
\* answers 200 with the account's record to the token the client held, at
\* every time up to the token's exp, as long as the record exists.
C22_LogoutIsClientSide ==
    [][/\ (app.ui = "idle" /\ app'.ui = "logout")
          => /\ IsNone(app'.token) /\ IsNone(app'.current_user)
             /\ UNCHANGED <<store, now, nextId, nextNonce, pc, req, resp>>
       /\ \A r \in Reqs :
            (/\ Started(r) /\ req'[r].op = "get_my_profile"
             /\ LoggedOut
             /\ req'[r].token = app.left
             /\ Unexpired(app.left[1]))
            => /\ pc'[r] = "done"
               /\ resp'[r].status = 200
               /\ resp'[r].body =
                     Some(WithoutPasswordHash(users[app.left[1].sub]))]_vars

\* the client logged out at time 0 and shows the login screen; 300 seconds
\* later GET /users/me has answered 200 to the token it had held
C22_Witness ==
    /\ LoggedOut
    /\ app.views = <<"login">>
    /\ app.left[1].exp = now
    /\ now > 0
    /\ pc[1] = "done"
    /\ req[1].op = "get_my_profile"
    /\ req[1].token = app.left
    /\ resp[1].status = 200

\* C25: whenever no handler and no background thread of the client is
\* running and the API client holds no token, the view stack holds the login
\* screen and nothing else.
C25_LoginScreenWithoutToken ==
    (app.ui = "idle" /\ app.bg = "none" /\ IsNone(app.token))
        => app.views = <<"login">>

\* the callback in slot s was answered 400 at the code exchange
FailedAtExchange(s) ==
    /\ pc[s] = "done"
    /\ req[s].op \in Callbacks
    /\ resp[s].status = 400
    /\ req[s].net = 1

\* C31: in both callbacks the step that deletes the nonce comes before any
\* provider call and the nonce is gone when the code exchange is made; no
\* step of a callback before the find-or-create writes a record, an index
\* entry or a membership, and the find-or-create writes only after the code
\* exchange and the profile fetch have answered.  A callback that presents
\* the nonce of a callback that failed at the code exchange is answered 400
\* at the state check and changes nothing.
C31_NonceConsumedBeforeExchange ==
    [][\A r \in Reqs :
        /\ Leaves(r, "cb_del_state")
           => /\ req[r].net = 0
              /\ pc'[r] = "cb_exchange"
              /\ req[r].state \notin DOMAIN oauth_state'
        /\ Leaves(r, "cb_exchange")
           => /\ req[r].net = 0
              /\ req[r].state \notin DOMAIN oauth_state
        /\ (req'[r].op \in Callbacks /\ pc'[r] # pc[r]
              /\ pc[r] \notin {"cb_set_user", "cb_set_index", "cb_sadd"})
           => UNCHANGED <<users, email_to_id, users_all>>
        /\ (req[r].op \in Callbacks /\ pc'[r] # pc[r]
              /\ pc[r] \in {"cb_set_user", "cb_set_index", "cb_sadd"})
           => /\ req[r].net >= 2
              /\ ~IsNone(req[r].ident)
              /\ req[r].state \notin DOMAIN oauth_state
        /\ (/\ Started(r) /\ req'[r].op \in Callbacks
            /\ \E s \in Reqs \ {r} :
                  FailedAtExchange(s) /\ req[s].state = req'[r].state)
           => /\ pc'[r] = "done"
              /\ resp'[r].status = 400
              /\ req'[r].net = 0
              /\ UNCHANGED store]_vars

\* a callback failed at the code exchange, and a second callback with the
\* same nonce, within the nonce's 600 seconds, was answered 400 at the state
\* check
C31_Witness ==
    \E r, s \in Reqs :
        /\ r # s
        /\ FailedAtExchange(s)
        /\ req[r].op = req[s].op
        /\ req[r].state = req[s].state
        /\ req[r].at < issued_at[req[s].state] + StateTTL
        /\ RejectedAtStateCheck(r)

\* C32: no step of DELETE /users/me for user u removes or changes an entry of
\* the e-mail index that names another user v whose record exists: v is
\* still found under its e-mail afterwards.
C32_DeleteKeepsOthersIndex ==
    [][\A r \in Reqs :
        (req[r].op = "delete_my_account" /\ pc'[r] # pc[r])
        => \A e \in DOMAIN email_to_id :
              (email_to_id[e] # req[r].sub /\ email_to_id[e] \in DOMAIN users)
              => Get(email_to_id', e) = Get(email_to_id, e)]_vars

\* the records an earlier GitHub sign-in of this provider user created under
\* this e-mail
CreatedByGithub(ident) ==
    {u \in DOMAIN users : /\ users[u].provider = "github"
                          /\ users[u].oauth_id = ident.oauth_id
                          /\ users[u].email = ident.email}
\* the successful answers of GET /user
GithubProfiles == {u.json : u \in {x \in GithubUser : x.status = 200}}

\* C33: the e-mail a GitHub callback resolves from a profile that carries an
\* id depends on the provider's answers alone, the placeholder included.
\* With requests served one after another, a GitHub callback whose provider
\* calls answered 200 and resolved to the e-mail of a record that an earlier
\* sign-in of the same GitHub user created finds that record: it draws no id,
\* adds no record and redirects with a token whose subject is that record.
C33_GithubLoginRepeats ==
    [][/\ \A g \in GithubProfiles, a \in GithubEmails, n1, n2 \in 1..(MaxUsers + 1) :
             github_email(g, a, n1) = github_email(g, a, n2)
       /\ \A r \in Reqs :
            (/\ req[r].op = "github_callback" /\ ~req[r].non200
             /\ ~IsNone(req[r].ident)
             /\ req[r].newid = 0
             /\ CreatedByGithub(req[r].ident[1]) # {}
             /\ pc'[r] # pc[r])
            => LET prior == CreatedByGithub(req[r].ident[1])
               IN /\ Cardinality(prior) = 1
                  /\ DOMAIN users' = DOMAIN users
                  /\ nextId' = nextId
                  /\ req'[r].newid = 0
                  /\ Leaves(r, "cb_get_index")
                     => pc'[r] = "cb_get_user" /\ req'[r].uid[1] \in prior
                  /\ Leaves(r, "cb_get_user")
                     => pc'[r] = "cb_set_user" /\ ~IsNone(req'[r].user)
                  /\ pc'[r] = "done"
                     => /\ resp'[r].status = 302
                        /\ Subject(resp'[r].token, now) = req[r].uid
                        /\ req[r].uid[1] \in prior]_vars

\* a second sign-in of the same GitHub user, whose e-mail is the placeholder
\* made from the profile's id, was redirected with a token for the account the
\* first sign-in created, and there is no other record
C33_Witness ==
    \E r \in Reqs :
        /\ pc[r] = "done"
        /\ req[r].op = "github_callback"
        /\ ~req[r].non200
        /\ req[r].newid = 0
        /\ ~IsNone(req[r].ident)
        /\ req[r].ident[1].email = Placeholder("7")
        /\ resp[r].status = 302
        /\ resp[r].token[1].sub = 1
        /\ users[1].provider = "github"
        /\ users[1].email = Placeholder("7")
        /\ DOMAIN users = {1}

\* the fields of a record that no other user is to see
PrivateFields == {"email", "password_hash", "oauth_id"}

\* C34: every entry GET /users/search/query returns is the public view of a
\* record that was in the store when the search read it, a member of the
\* directory set whose record is missing is passed over and the search still
\* answers 200, no entry is the caller's, and no entry of a search result and
\* no body of GET /users/{id} has an email, password_hash or oauth_id field.
C34_SearchPublicOnly ==
    [][\A r \in Reqs :
        /\ (pc[r] = "search_get" /\ req'[r] # req[r])
           => /\ pc'[r] \in {"search_get", "done"}
              /\ req'[r].results \ req[r].results \subseteq
                    {public_user_view(users[u]) : u \in DOMAIN users \cap req[r].ids}
              /\ (req[r].ids \cap DOMAIN users = {})
                    => req'[r].results = req[r].results
        /\ (pc'[r] = "done" /\ pc[r] # "done" /\ req'[r].op = "search_users"
              /\ ~IsNone(req'[r].user) /\ Len(req'[r].q) >= 2)
           => /\ resp'[r].status = 200
              /\ resp'[r].body[1].results \subseteq req'[r].results
              /\ resp'[r].body[1].count = Cardinality(resp'[r].body[1].results)
              /\ \A u \in resp'[r].body[1].results :
                    /\ u.user_id # req'[r].sub
                    /\ DOMAIN u \cap PrivateFields = {}
        /\ (pc'[r] = "done" /\ pc[r] # "done" /\ req'[r].op = "get_user_profile"
              /\ resp'[r].status = 200)
           => /\ DOMAIN resp'[r].body[1] \cap PrivateFields = {}
              /\ resp'[r].body[1] = public_user_view(users[req'[r].target])]_vars

\* user 2 searched for a name every record has while user 1, still in the
\* directory set, had its record removed by a deletion in progress: the
\* search answered 200 and returned neither user 1 nor the caller
C34_Witness ==
    /\ pc[2] = "done"
    /\ req[2].op = "search_users"
    /\ req[2].sub = 2
    /\ req[2].q = "NAME"
    /\ resp[2].status = 200
    /\ resp[2].body[1].count = 0
    /\ req[2].results = {public_user_view(users[2])}
    /\ pc[1] = "del_srem"
    /\ 1 \in users_all
    /\ 1 \notin DOMAIN users

\* the call of the background thread returns or raises in this step: the
\* thread reads the response of its request
CallEnds(call) == app.bg = call /\ pc[1] = "done" /\ app'.bg # call
SameSession == app'.token = app.token /\ app'.current_user = app.current_user

\* C35: when OtherUsAPI.register, login or delete_account reads a response
\* with a status of 400 or more it raises APIError with that status and
\* leaves token and current_user as they are, and so it does when no
\* response arrives and httpx raises; when the response is a success,
\* register and login store the response's token and the account it was
\* issued for, and delete_account clears token and current_user.
C35_FailedCallKeepsSession ==
    [][/\ (CallEnds("auth_call") \/ CallEnds("delete_call"))
          => /\ resp[1].status >= 400
                => /\ SameSession
                   /\ app'.err \in {Some(APIError(resp[1].status)),
                                    Some(TransportError)}
             /\ app'.err = Some(TransportError) => SameSession
             /\ (resp[1].status < 400 /\ app'.err # Some(TransportError))
                => app'.err = app.err
       /\ (/\ CallEnds("auth_call")
           /\ resp[1].status < 400 /\ app'.err # Some(TransportError))
             => /\ req[1].op = app.call
                /\ app'.token = resp[1].token
                /\ Names(app'.token, resp[1].user_id)
                /\ app'.current_user =
                      Some([user_id |-> resp[1].user_id,
                            display_name |-> users[resp[1].user_id].display_name,
                            email |-> users[resp[1].user_id].email])
       /\ (/\ CallEnds("delete_call")
           /\ resp[1].status < 400 /\ app'.err # Some(TransportError))
             => IsNone(app'.token) /\ IsNone(app'.current_user)]_vars

\* the client, signed in at time 0, sent DELETE /users/me when its token had
\* expired; the call raised APIError with the response's 401 and the client
\* holds the token and the account as before
C35_Witness ==
    /\ app.err = Some(APIError(401))
    /\ app.views = <<"settings">>
    /\ app.bg = "none"
    /\ ~IsNone(app.token)
    /\ app.token[1].exp < now
    /\ ~IsNone(app.current_user)
    /\ app.current_user[1].user_id = app.token[1].sub

\* C36: whenever no call of the API client is in flight, a token the client
\* holds is one the backend signed and the client holds the account that
\* goes with it: a set_token whose profile fetch was rejected or failed has
\* left no token behind.
C36_HoldsAcceptedTokensOnly ==
    (app.bg = "none" /\ ~IsNone(app.token))
        => /\ app.token[1].form = "jwt"
           /\ app.token[1].key = SECRET_KEY
           /\ ~IsNone(app.current_user)
           /\ app.current_user[1].user_id = app.token[1].sub

\* the request has invoked each handler of its snapshot once, whether or not
\* a handler raised, and no other handler; without a token it has invoked none
InvokedOnce ==
    /\ \A s \in Sessions : oauth_callbacks.called[s] <= 1
    /\ oauth_callbacks.raised \subseteq Range(oauth_callbacks.snapshot)
    /\ oauth_callbacks.phase = "done"
       => /\ oauth_callbacks.token = "" =>
                \A s \in Sessions : oauth_callbacks.called[s] = 0
          /\ \A s \in Sessions :
                oauth_callbacks.called[s] =
                   IF s \in Range(oauth_callbacks.snapshot) THEN 1 ELSE 0

\* C37: a request to /oauth_callback with a token invokes each handler that
\* was in the registry when it arrived exactly once, also when a handler
\* raises; a request with an empty token invokes none; and no handler is
\* invoked once its session's on_disconnect has removed it.
C37_CallbackInvokesRegistered ==
    /\ InvokedOnce
    /\ oauth_callbacks.late = {}

\* the login screen shows the progress ring or has a button disabled
Loading ==
    \/ app.loading.visible
    \/ app.loading.submit_btn
    \/ app.loading.google_btn
    \/ app.loading.github_btn

\* C38: whenever the login screen has been put into its loading state, by a
\* submit or by an OAuth button, it is eventually taken out of it again:
\* the ring hidden and the three buttons enabled, whether the call succeeded,
\* was rejected or raised.
C38_LoadingEventuallyCleared ==
    Loading ~> (app.loading = set_loading(FALSE))

\* a request for a provider's login URL raised, and the screen is usable again
C38_Witness ==
    /\ app.views = <<"login">>
    /\ app.bg = "none"
    /\ app.err = Some(TransportError)
    /\ nextNonce > 1
    /\ app.loading = set_loading(FALSE)

=============================================================================
